---- MODULE Spec2Model ----
(***************************************************************************)
(* SEPTA bid scraper: one invocation of the scraper by one of its entry    *)
(* points (manual fetch handler, scheduled fetch, connection test), the    *)
(* session it owns (browser, page) and the login state machine.            *)
(*                                                                         *)
(* Strings are the program's own literals; String.prototype.includes is    *)
(* computed on them as a substring test.  The log is the sequence of calls *)
(* the invocation has made, in program order.                              *)
(***************************************************************************)
EXTENDS Integers, Sequences, FiniteSets, TLC

\* Bounds of the model.
MaxMatches == 2     \* field selectors (username and password chains together)
                    \* that match an element of the login page
MaxSubmitMatches == 1   \* submit selectors that match an element of the login page
MaxBids == 1        \* records one scrapeBids() call returns

\* `null` for this.credentials; a credential pair is <<username, password>>.
Null == <<>>

\* The null ElementHandle and the handle page.$() returns for selector #i.
NullElement == [sel |-> 0, visible |-> FALSE]

\* ---------------------------------------------------------------- strings

\* String.prototype.includes
Includes(s, sub) ==
    \E i \in 1..(Len(s) - Len(sub) + 1) : SubSeq(s, i, i + Len(sub) - 1) = sub

\* Messages of the errors the browser driver raises (launch, goto, fill,
\* click); the texts are the driver's, the set is a sample of them.
GotoErrors ==
    { "page.goto: net::ERR_CONNECTION_REFUSED",
      "page.goto: Timeout 30000ms exceeded." }

FillErrors == { "elementHandle.fill: Timeout 30000ms exceeded." }

ClickErrors ==
    { "elementHandle.click: waiting for scheduled navigations to finish, timeout" }

LaunchErrors == { "browserType.launch: Executable doesn't exist" }

NewPageErrors == { "browser.newPage: Target closed" }

TextContentErrors == { "page.textContent: Timeout 30000ms exceeded." }

\* Reading a property of null.
TypeErrorMessage == "Cannot read properties of null"

\* Texts of the error element login() reads after a rejected submit.
ErrorTexts == { "Invalid credentials", "Access denied" }

\* page.url() after the submit click.
Urls ==
    { "https://epsadmin.septa.org/vendor/login",
      "https://epsadmin.septa.org/vendor/login?error=1",
      "https://epsadmin.septa.org/vendor/",
      "https://epsadmin.septa.org/vendor/dashboard",
      "https://www.septa.org/" }

\* The content markers login() looks up after the submit click.
Markers ==
    { "text=Dashboard", "text=Vendor Portal", "a[href*=\"requisitions\"]",
      "text=Quotes Under" }

\* ------------------------------------------------------- selector chains

usernameSelectors ==
    << "input[type=\"text\"]", "input[type=\"email\"]", "input[name*=\"user\"]",
       "input[id*=\"user\"]", "input[name*=\"email\"]", "input[name=\"username\"]",
       "input[name=\"login\"]", "input[placeholder*=\"user\"]",
       "input[placeholder*=\"email\"]" >>

passwordSelectors ==
    << "input[type=\"password\"]", "input[name*=\"pass\"]", "input[id*=\"pass\"]",
       "input[name=\"password\"]", "input[placeholder*=\"pass\"]" >>

submitSelectors ==
    << "button[type=\"submit\"]", "input[type=\"submit\"]",
       "button:has-text(\"Login\")", "button:has-text(\"Sign In\")",
       "button:has-text(\"Submit\")", "input[value*=\"Login\"]",
       "input[value*=\"Sign In\"]", ".login-button", "#login-button",
       "[class*=\"submit\"]" >>

\* What a page holds for the selectors of one chain: for each selector, in
\* list order, whether the first element it matches (the one page.$ returns)
\* is absent, hidden or visible.
MatchKinds == {"none", "hidden", "visible"}

Matches(dom) == {i \in 1..Len(dom) : dom[i] # "none"}

\* The pages with at most k matching selectors in a chain of n selectors.
ChainDoms(n, k) ==
    UNION { { [i \in 1..n |-> IF i \in S THEN f[i] ELSE "none"] :
                f \in [S -> {"hidden", "visible"}] } :
            S \in {T \in SUBSET (1..n) : Cardinality(T) <= k} }

\* page.$(chain[i]) on a page holding dom
Query(dom, i) ==
    IF dom[i] = "none" THEN NullElement
    ELSE [sel |-> i, visible |-> (dom[i] = "visible")]

\* Nothing observed of a chain yet (or the page that held it is gone).
Unseen == <<>>

NoDom == [user |-> Unseen, pass |-> Unseen]

\* The login pages: what they hold for the username and the password chain.
LoginDoms ==
    { d \in [user : ChainDoms(Len(usernameSelectors), MaxMatches),
              pass : ChainDoms(Len(passwordSelectors), MaxMatches)] :
        Cardinality(Matches(d.user)) + Cardinality(Matches(d.pass)) <= MaxMatches }

SubmitDoms == ChainDoms(Len(submitSelectors), MaxSubmitMatches)

\* The username and password loops: the first selector, in list order, for
\* which page.$ returns an element ends the loop; no visibility test.
RECURSIVE WalkFirst(_, _, _)
WalkFirst(dom, i, cur) ==
    IF i > Len(dom) THEN cur
    ELSE LET el == Query(dom, i)
         IN  IF el # NullElement THEN el ELSE WalkFirst(dom, i + 1, el)

\* The submit loop: the variable is assigned every lookup's result, and the
\* loop ends at the first result that is an element and is visible.
RECURSIVE WalkVisible(_, _, _)
WalkVisible(dom, i, cur) ==
    IF i > Len(dom) THEN cur
    ELSE LET el == Query(dom, i)
         IN  IF el # NullElement /\ el.visible THEN el
             ELSE WalkVisible(dom, i + 1, el)

\* ------------------------------------------------------------------ state

VARIABLES
    proc,           \* the Node process: "running" or "exited"
    entry,          \* entry point of the invocation: "idle", "manual", "scheduled", "test"
    pc,             \* position of the invocation
    credentials,    \* this.credentials: Null or <<username, password>>
    debugMode,      \* this.debugMode
    browserRef,     \* this.browser is set
    pageRef,        \* this.page is set
    browserOpen,    \* a browser this invocation launched is still open
    pageOpen,       \* the page this invocation created is still open
    domSeen,        \* what the login page holds for the username and password
                    \* chains, from their walk until the fields are filled
    usernameField,  \* login()'s local handles
    passwordField,
    submitButton,
    navWait,        \* outcome of the idle-network wait after the click
    currentUrl,     \* page.url() read by the verification
    markers,        \* content markers present at the verification
    err,            \* message of the exception in flight or caught, "" if none
    loginResult,    \* "none", "true" (returned true), "threw"
    scrapedBids,    \* the list scrapeBids() returned
    response,       \* what the entry point reported to its caller
    log,            \* the calls made so far, in order
    launchedBy,     \* initialize(): "pending", "playwright", "system", "failed"
    pageMade,       \* initialize(): "pending", "made", "failed"
    warnings,       \* initialize(): the configuration steps that failed
    linksSeen,      \* scrapeBids(): what the dashboard holds for the
                    \* view-listings chain, from its walk to the search walk
    quotesLink,     \* scrapeBids()'s local handles
    searchButton,
    loadWait,       \* outcome of scrapeBids()'s last idle-network wait
    site,           \* the listing: for each of its pages, in pagination
                    \* order, the number of records the page yields, or
                    \* its row elements and its pagination bar
    currentPage,    \* scrapeBids()'s loop variables
    hasMorePages,
    bids,           \* the list scrapeBids() accumulates
    nextSeen,       \* what the current page holds for the next-page chain
    nextButton,
    pageError,      \* what the page-level catch of extractBidsFromCurrentPage()
                    \* caught in the last page extraction ("": nothing)
    rowElements,    \* extractBidsFromCurrentPage(): the row elements found
    rowIndex,       \* its loop variable (1-based)
    pageBids,       \* the list it accumulates
    clock,          \* the time new Date() returns
    fieldSeen,      \* extractBidDataFromElement(): what the row holds for
                    \* the title chain and for the link chain
    fieldTaken,     \* the title and the link taken from the row
    bid,            \* the record extractBidDataFromElement() is building
    store,          \* the records of the bid store (bids.json), in file order
    bidIndex,       \* the upsert loop's position in scrapedBids (1-based)
    db,             \* connectDB() and startServer(): the attempts made, the
                    \* delays waited, the value returned, the listening socket
    runs,           \* the fetch runs whose upsert loops overlap in time
    cred,           \* the stored SEPTA credential
    test            \* the credential test in flight

vars == << proc, entry, pc, credentials, debugMode, browserRef, pageRef,
           browserOpen, pageOpen, domSeen, usernameField, passwordField,
           submitButton, navWait, currentUrl, markers, err, loginResult,
           scrapedBids, response, log, launchedBy, pageMade, warnings,
           linksSeen, quotesLink, searchButton, loadWait, site, currentPage,
           hasMorePages, bids, nextSeen, nextButton, pageError, rowElements,
           rowIndex, pageBids, clock, fieldSeen, fieldTaken, bid, store,
           bidIndex, db, runs, cred, test >>

\* The state of the step-by-step specifications of initialize() and
\* scrapeBids(); the entry-point specification leaves it alone.
initLocals == << launchedBy, pageMade, warnings >>
scrapeLocals == << linksSeen, quotesLink, searchButton, loadWait, site,
                   currentPage, hasMorePages, bids, nextSeen, nextButton,
                   pageError >>
extractLocals == << rowElements, rowIndex, pageBids, clock, fieldSeen,
                    fieldTaken, bid >>
storeLocals == << store, bidIndex >>
serverLocals == << db, runs, cred, test >>
refinementVars == << initLocals, scrapeLocals, extractLocals, storeLocals,
                     serverLocals >>

session == << browserRef, pageRef, browserOpen, pageOpen >>
loginLocals == << domSeen, usernameField, passwordField, submitButton,
                  navWait, currentUrl, markers >>

\* An element handle of the next-page loop: none.
NullControl == [sel |-> 0, visible |-> FALSE, href |-> ""]

\* scrapeBids() is not running.
ScrapeIdle ==
    /\ linksSeen = Unseen
    /\ quotesLink = NullElement
    /\ searchButton = NullElement
    /\ loadWait = "none"
    /\ site = <<>>
    /\ currentPage = 0
    /\ hasMorePages = FALSE
    /\ bids = <<>>
    /\ nextSeen = Unseen
    /\ nextButton = NullControl
    /\ pageError = ""

\* A field no selector of its chain gave a value.
NoField == [via |-> 0, value |-> ""]

\* bid.dueDate = null: a date is a number that is not negative.
NoDate == 0 - 1

\* const bid = { portal: 'SEPTA', title: '', postedDate: null, ... }.  The
\* titleHash property, which the object gets at the end, is "" until then.
NewBid ==
    [portal |-> "SEPTA", title |-> "", postedDate |-> NoDate,
     dueDate |-> NoDate, amount |-> "", quantity |-> "", link |-> "",
     documents |-> << >>, externalId |-> "", description |-> "",
     status |-> "open", titleHash |-> ""]

\* return null
NullBid == [NewBid EXCEPT !.portal = "", !.status = ""]

\* Neither extractBidsFromCurrentPage() nor extractBidDataFromElement() is
\* running.
ExtractIdle ==
    /\ rowElements = <<>>
    /\ rowIndex = 0
    /\ pageBids = <<>>
    /\ clock = 0
    /\ fieldSeen = [title |-> Unseen, link |-> Unseen]
    /\ fieldTaken = [title |-> NoField, link |-> NoField]
    /\ bid = NullBid

\* The bid store before the first fetch: bids.json holds [].
StoreIdle ==
    /\ store = <<>>
    /\ bidIndex = 0

\* connectDB() before its first attempt.
NoConnection == [retries |-> 0, outcomes |-> <<>>, waited |-> <<>>,
                 result |-> "pending", playwright |-> "pending",
                 scheduled |-> FALSE, listening |-> FALSE]

\* No stored credential (findCredentialByPortal gives null), and no test
\* in flight.  `login` is the username and password pair; `passed` keeps
\* the pairs with which testConnection() has returned true.
NoCredential == [id |-> 0 - 1, login |-> "", lastTestOk |-> FALSE]
NoTest == [phase |-> "idle", id |-> 0 - 1, login |-> "", testResult |-> FALSE,
           passed |-> {}]

\* The server is not being started, no fetch runs overlap and no
\* credential is stored.
ServerIdle ==
    /\ db = NoConnection
    /\ runs = <<>>
    /\ cred = NoCredential
    /\ test = NoTest

NoResponse == [status |-> 0, error |-> "", details |-> "", testPassed |-> FALSE,
               total |-> 0]

Init ==
    /\ proc = "running"
    /\ entry = "idle"
    /\ pc = "idle"
    /\ credentials = Null
    /\ debugMode = FALSE
    /\ browserRef = FALSE
    /\ pageRef = FALSE
    /\ browserOpen = FALSE
    /\ pageOpen = FALSE
    /\ domSeen = NoDom
    /\ usernameField = NullElement
    /\ passwordField = NullElement
    /\ submitButton = NullElement
    /\ navWait = "none"
    /\ currentUrl = ""
    /\ markers = {}
    /\ err = ""
    /\ loginResult = "none"
    /\ scrapedBids = <<>>
    /\ response = NoResponse
    /\ log = <<>>
    /\ launchedBy = "pending"
    /\ pageMade = "pending"
    /\ warnings = {}
    /\ ScrapeIdle
    /\ ExtractIdle
    /\ StoreIdle
    /\ ServerIdle

\* The credential store as an entry point finds it: no SEPTA credential, one
\* that does not decrypt, or one that decrypts to a pair.
StoredCredentials == {"absent", "undecryptable", "present"}

DecryptedPair == <<"vendor", "secret">>

\* takeDebugScreenshot(name): a call; it captures only with a page and in
\* debug mode, and a failed capture is logged and swallowed.
Shot(l, page, debug) ==
    IF page /\ debug THEN l \o <<"takeDebugScreenshot", "page.screenshot">>
    ELSE l \o <<"takeDebugScreenshot">>

\* Mutant: testConnection()'s catch returns false without cleanup().
CallerCatchNoTestCleanup(e) ==
    CASE e = "manual" -> "manual_catch"
      [] e = "scheduled" -> "scheduled_catch"
      [] e = "test" -> "test_respond"

\* Where an exception that leaves initialize(), login() or scrapeBids()
\* lands in the entry point that called it.
CallerCatch(e) ==
    CASE e = "manual" -> "manual_catch"
      [] e = "scheduled" -> "scheduled_catch"
      [] e = "test" -> "test_catch"

\* An exception leaves login()'s try block: its block-scoped handles go out
\* of scope, the message travels in err.
ThrowInLogin(msg, l) ==
    /\ err' = msg
    /\ log' = l
    /\ pc' = "login_catch"
    /\ usernameField' = NullElement
    /\ passwordField' = NullElement
    /\ submitButton' = NullElement

\* ----------------------------------------------------------- entry points

\* fetchSeptaBids up to the construction of the scraper.
StartManual ==
    /\ proc = "running" /\ pc = "idle"
    /\ entry' = "manual"
    /\ \E stored \in StoredCredentials, debug \in BOOLEAN :
         CASE stored = "absent" ->
                /\ response' = [NoResponse EXCEPT !.status = 400,
                      !.error = "No SEPTA credentials found. Please save credentials first."]
                /\ pc' = "done"
                /\ UNCHANGED << credentials, debugMode >>
           [] stored = "undecryptable" ->
                /\ response' = [NoResponse EXCEPT !.status = 500,
                      !.error = "Failed to decrypt credentials. Please re-save credentials."]
                /\ pc' = "done"
                /\ UNCHANGED << credentials, debugMode >>
           [] stored = "present" ->
                /\ credentials' = DecryptedPair
                /\ debugMode' = debug
                /\ pc' = "initialize"
                /\ UNCHANGED response
    /\ UNCHANGED << proc, session, loginLocals, err, loginResult, scrapedBids, log >>
    /\ UNCHANGED refinementVars

\* scheduledBidFetch up to the construction of the scraper: a missing or
\* undecryptable credential leaves credentials null and the run goes on.
StartScheduled ==
    /\ proc = "running" /\ pc = "idle"
    /\ entry' = "scheduled"
    /\ \E stored \in StoredCredentials, debug \in BOOLEAN :
         /\ credentials' = IF stored = "present" THEN DecryptedPair ELSE Null
         /\ debugMode' = debug
    /\ pc' = "initialize"
    /\ UNCHANGED << proc, session, loginLocals, err, loginResult, scrapedBids,
                    response, log >>
    /\ UNCHANGED refinementVars

\* testSeptaCredentials up to the call of testConnection().
StartTest ==
    /\ proc = "running" /\ pc = "idle"
    /\ entry' = "test"
    /\ \E stored \in StoredCredentials, debug \in BOOLEAN :
         CASE stored = "absent" ->
                /\ response' = [NoResponse EXCEPT !.status = 400,
                      !.error = "No SEPTA credentials found. Please save credentials first."]
                /\ pc' = "done"
                /\ UNCHANGED << credentials, debugMode >>
           [] stored = "undecryptable" ->
                /\ response' = [NoResponse EXCEPT !.status = 500,
                      !.error = "Failed to decrypt credentials. Please re-save credentials."]
                /\ pc' = "done"
                /\ UNCHANGED << credentials, debugMode >>
           [] stored = "present" ->
                /\ credentials' = DecryptedPair
                /\ debugMode' = debug
                /\ pc' = "initialize"
                /\ UNCHANGED response
    /\ UNCHANGED << proc, session, loginLocals, err, loginResult, scrapedBids, log >>
    /\ UNCHANGED refinementVars

\* ------------------------------------------------------------- initialize

\* initialize(): the browser is launched (the system browser as fallback),
\* then the page is created; either failure is rethrown as an initialization
\* failure.  A launched browser stays in this.browser when newPage fails.
Initialize ==
    /\ proc = "running" /\ pc = "initialize"
    /\ \E outcome \in {"ready"} \cup LaunchErrors \cup NewPageErrors :
         /\ browserRef' = (outcome \notin LaunchErrors)
         /\ browserOpen' = (outcome \notin LaunchErrors)
         /\ pageRef' = (outcome = "ready")
         /\ pageOpen' = (outcome = "ready")
         /\ IF outcome = "ready"
            THEN /\ pc' = "login"
                 /\ err' = err
            ELSE /\ pc' = CallerCatch(entry)
                 /\ err' = "Scraper initialization failed: " \o outcome
    /\ log' = log \o <<"initialize">>
    /\ UNCHANGED << proc, entry, credentials, debugMode, loginLocals,
                    loginResult, scrapedBids, response >>
    /\ UNCHANGED refinementVars

\* ------------------------------------------------------------------ login

\* Mutant: the precondition test is lost.
CredentialsNeverMissing(c) == FALSE

\* if (!this.credentials)
CredentialsMissing(c) == c = Null

\* login(), the precondition: it is outside the try block.
LoginEntry ==
    /\ proc = "running" /\ pc = "login"
    /\ IF CredentialsMissing(credentials)
       THEN /\ err' = "SEPTA credentials are required"
            /\ log' = log \o <<"login", "login:throw">>
            /\ loginResult' = "threw"
            /\ pc' = CallerCatch(entry)
       ELSE /\ log' = log \o <<"login">>
            /\ pc' = "goto"
            /\ UNCHANGED << err, loginResult >>
    /\ UNCHANGED << proc, entry, credentials, debugMode, session, loginLocals,
                    scrapedBids, response >>
    /\ UNCHANGED refinementVars

\* page.goto(loginUrl), then the login-page snapshot.
LoginGoto ==
    /\ proc = "running" /\ pc = "goto"
    /\ \E outcome \in {"loaded"} \cup GotoErrors :
         IF outcome = "loaded"
         THEN /\ log' = Shot(log \o <<"page.goto">>, pageRef, debugMode)
              /\ pc' = "waitForm"
              /\ UNCHANGED << err, usernameField, passwordField, submitButton >>
         ELSE ThrowInLogin(outcome, log \o <<"page.goto">>)
    /\ UNCHANGED << proc, entry, credentials, debugMode, session, domSeen,
                    navWait, currentUrl, markers, loginResult, scrapedBids,
                    response >>
    /\ UNCHANGED refinementVars

\* page.waitForSelector(form or a username-like input), 15 s.
LoginWaitForm ==
    /\ proc = "running" /\ pc = "waitForm"
    /\ \E appeared \in BOOLEAN :
         IF appeared
         THEN /\ pc' = "locate"
              /\ UNCHANGED << err, log, usernameField, passwordField, submitButton >>
         ELSE ThrowInLogin("Login form not found on SEPTA portal",
                           Shot(log, pageRef, debugMode))
    /\ UNCHANGED << proc, entry, credentials, debugMode, session, domSeen,
                    navWait, currentUrl, markers, loginResult, scrapedBids,
                    response >>
    /\ UNCHANGED refinementVars

\* Mutant: && in place of ||.
FieldsBothMissing(u, p) == u = NullElement /\ p = NullElement

\* if (!usernameField || !passwordField)
FieldsMissing(u, p) == u = NullElement \/ p = NullElement

\* The two selector walks, then the test of their results.
LoginLocateFields ==
    /\ proc = "running" /\ pc = "locate"
    /\ \E d \in LoginDoms :
         LET u == WalkFirst(d.user, 1, NullElement)
             p == WalkFirst(d.pass, 1, NullElement)
             found == (IF u # NullElement THEN <<"found:username">> ELSE <<>>)
                      \o (IF p # NullElement THEN <<"found:password">> ELSE <<>>)
         IN  /\ domSeen' = d
             /\ IF FieldsMissing(u, p)
                THEN ThrowInLogin("Username or password field not found on login form",
                                  Shot(log \o found \o <<"page.content">>,
                                       pageRef, debugMode))
                ELSE /\ usernameField' = u
                     /\ passwordField' = p
                     /\ log' = log \o found
                     /\ pc' = "fillUser"
                     /\ UNCHANGED << err, submitButton >>
    /\ UNCHANGED << proc, entry, credentials, debugMode, session, navWait,
                    currentUrl, markers, loginResult, scrapedBids, response >>
    /\ UNCHANGED refinementVars

\* usernameField.fill(this.credentials.username)
LoginFillUsername ==
    /\ proc = "running" /\ pc = "fillUser"
    /\ IF usernameField = NullElement \/ credentials = Null
       THEN ThrowInLogin(TypeErrorMessage, log)
       ELSE \E outcome \in {"filled"} \cup FillErrors :
              IF outcome = "filled"
              THEN /\ log' = log \o <<"fill:username">>
                   /\ pc' = "fillPass"
                   /\ UNCHANGED << err, usernameField, passwordField, submitButton >>
              ELSE ThrowInLogin(outcome, log)
    /\ UNCHANGED << proc, entry, credentials, debugMode, session, domSeen,
                    navWait, currentUrl, markers, loginResult, scrapedBids,
                    response >>
    /\ UNCHANGED refinementVars

\* passwordField.fill(this.credentials.password), then the snapshot.  The
\* fields located on the page have been used: domSeen is dropped.
LoginFillPassword ==
    /\ proc = "running" /\ pc = "fillPass"
    /\ IF passwordField = NullElement \/ credentials = Null
       THEN /\ ThrowInLogin(TypeErrorMessage, log)
            /\ UNCHANGED domSeen
       ELSE \E outcome \in {"filled"} \cup FillErrors :
              IF outcome = "filled"
              THEN /\ log' = Shot(log \o <<"fill:password">>, pageRef, debugMode)
                   /\ pc' = "locateSubmit"
                   /\ domSeen' = NoDom
                   /\ UNCHANGED << err, usernameField, passwordField, submitButton >>
              ELSE /\ ThrowInLogin(outcome, log)
                   /\ UNCHANGED domSeen
    /\ UNCHANGED << proc, entry, credentials, debugMode, session, navWait,
                    currentUrl, markers, loginResult, scrapedBids, response >>
    /\ UNCHANGED refinementVars

\* The walk of the submit chain, then if (!submitButton).
LoginLocateSubmit ==
    /\ proc = "running" /\ pc = "locateSubmit"
    /\ \E d \in SubmitDoms :
         LET b == WalkVisible(d, 1, NullElement)
         IN  IF b = NullElement
             THEN ThrowInLogin("Submit button not found on login form",
                               Shot(log, pageRef, debugMode))
             ELSE /\ submitButton' = b
                  /\ pc' = "click"
                  /\ UNCHANGED << err, log, usernameField, passwordField >>
    /\ UNCHANGED << proc, entry, credentials, debugMode, session, domSeen,
                    navWait, currentUrl, markers, loginResult, scrapedBids,
                    response >>
    /\ UNCHANGED refinementVars

\* submitButton.click().  The handles are not read after the click: they are
\* dropped here.
LoginClick ==
    /\ proc = "running" /\ pc = "click"
    /\ \E outcome \in {"clicked"} \cup ClickErrors :
         IF outcome = "clicked"
         THEN /\ log' = log \o <<"click">>
              /\ pc' = "waitNav"
              /\ usernameField' = NullElement
              /\ passwordField' = NullElement
              /\ submitButton' = NullElement
              /\ err' = err
         ELSE ThrowInLogin(outcome, log)
    /\ UNCHANGED << proc, entry, credentials, debugMode, session, domSeen,
                    navWait, currentUrl, markers, loginResult, scrapedBids,
                    response >>
    /\ UNCHANGED refinementVars

\* Mutant: the wait is awaited outside a try of its own.
NavigationWaitThrowsOnTimeout(outcome) == outcome = "timeout"

\* try { await navigationPromise } catch { warn }: whether an outcome of the
\* idle-network wait leaves the try as an exception.
NavigationWaitThrows(outcome) == FALSE

\* The idle-network wait (20 s) after the click, then the snapshot.
LoginWaitNavigation ==
    /\ proc = "running" /\ pc = "waitNav"
    /\ \E outcome \in {"idle", "timeout"} :
         /\ navWait' = outcome
         /\ IF NavigationWaitThrows(outcome)
            THEN ThrowInLogin("page.waitForLoadState: Timeout 20000ms exceeded.",
                              log \o <<"waitForLoadState">>)
            ELSE /\ log' = Shot(log \o <<"waitForLoadState">>, pageRef, debugMode)
                 /\ pc' = "verify"
                 /\ UNCHANGED << err, usernameField, passwordField, submitButton >>
    /\ UNCHANGED << proc, entry, credentials, debugMode, session, domSeen,
                    currentUrl, markers, loginResult, scrapedBids, response >>
    /\ UNCHANGED refinementVars

\* Mutant: the URL test and a marker are both required.
LoginSuccessBoth(url, marks) ==
    /\ Includes(url, "epsadmin.septa.org/vendor") /\ ~Includes(url, "/login")
    /\ marks # {}

\* const loginSuccess = (url in the vendor area and not the login page) ||
\* one of the four marker lookups
LoginSuccess(url, marks) ==
    \/ Includes(url, "epsadmin.septa.org/vendor") /\ ~Includes(url, "/login")
    \/ "text=Dashboard" \in marks
    \/ "text=Vendor Portal" \in marks
    \/ "a[href*=\"requisitions\"]" \in marks
    \/ "text=Quotes Under" \in marks

\* Mutant: a rejected login is reported by the return value.
VerifyOutcomeSoft(success) == IF success THEN "return true" ELSE "return false"

\* if (loginSuccess) return true; else throw
VerifyOutcome(success) == IF success THEN "return true" ELSE "throw"

\* The verification: the URL and the markers are read; without a success
\* signal the error selectors are scanned for a message.
LoginVerify ==
    /\ proc = "running" /\ pc = "verify"
    /\ \E url \in Urls, marks \in SUBSET Markers,
          errorMessage \in {"Unknown login error"} \cup ErrorTexts :
         LET outcome == VerifyOutcome(LoginSuccess(url, marks))
             seen == Shot(log \o <<"verify">>, pageRef, debugMode)
         IN  /\ currentUrl' = url
             /\ markers' = marks
             /\ IF outcome = "throw"
                THEN /\ ThrowInLogin("Login failed: " \o errorMessage, seen)
                     /\ UNCHANGED loginResult
                ELSE /\ log' = seen \o <<"login:" \o outcome>>
                     /\ loginResult' = (IF outcome = "return true" THEN "true" ELSE "false")
                     /\ pc' = (IF entry = "test" THEN "test_return" ELSE "scrape")
                     /\ UNCHANGED << err, usernameField, passwordField, submitButton >>
    /\ UNCHANGED << proc, entry, credentials, debugMode, session, domSeen,
                    navWait, scrapedBids, response >>
    /\ UNCHANGED refinementVars

\* Mutant: the catch block rethrows without the snapshot.
CatchLogNoShot(l, page, debug) == l \o <<"login:throw">>

\* catch (error) { takeDebugScreenshot('error-login-exception'); throw error }
CatchLog(l, page, debug) == Shot(l, page, debug) \o <<"login:throw">>

LoginCatch ==
    /\ proc = "running" /\ pc = "login_catch"
    /\ log' = CatchLog(log, pageRef, debugMode)
    /\ loginResult' = "threw"
    /\ pc' = CallerCatch(entry)
    /\ UNCHANGED << proc, entry, credentials, debugMode, session, loginLocals,
                    err, scrapedBids, response >>
    /\ UNCHANGED refinementVars

\* ------------------------------------------------------------ scrapeBids

\* scrapeBids() as its callers see it: it returns a list of records, or its
\* catch block takes a snapshot and rethrows.
ScrapeBids ==
    /\ proc = "running" /\ pc = "scrape"
    /\ \E outcome \in {"returned"} \cup GotoErrors, n \in 0..MaxBids :
         IF outcome = "returned"
         THEN /\ scrapedBids' = [i \in 1..n |-> i]
              /\ log' = log \o <<"scrapeBids">>
              /\ pc' = (IF entry = "manual" THEN "manual_finally"
                        ELSE "scheduled_cleanup")
              /\ err' = err
         ELSE /\ scrapedBids' = scrapedBids
              /\ log' = Shot(log \o <<"scrapeBids">>, pageRef, debugMode)
              /\ pc' = CallerCatch(entry)
              /\ err' = outcome
    /\ UNCHANGED << proc, entry, credentials, debugMode, session, loginLocals,
                    loginResult, response >>
    /\ UNCHANGED refinementVars

\* ---------------------------------------------------------------- cleanup

\* cleanup(): page.close() then browser.close(), each only if the field is
\* set; an exception of either ends the try block and is logged.
Cleanup ==
    \E pageCloseThrows \in BOOLEAN, browserCloseThrows \in BOOLEAN :
      /\ log' = log \o <<"cleanup">>
      /\ IF pageRef /\ pageCloseThrows
         THEN UNCHANGED session
         ELSE /\ pageRef' = FALSE
              /\ IF browserRef /\ browserCloseThrows
                 THEN /\ pageOpen' = (pageOpen /\ ~pageRef)
                      /\ UNCHANGED << browserRef, browserOpen >>
                 ELSE /\ browserRef' = FALSE
                      /\ browserOpen' = (browserOpen /\ ~browserRef)
                      /\ pageOpen' = (pageOpen /\ ~pageRef /\ ~browserRef)

\* ------------------------------------------------- fetchSeptaBids (manual)

\* catch (error) { throw new Error(`Scraping failed: ${error.message}`) }
ManualCatch ==
    /\ proc = "running" /\ pc = "manual_catch"
    /\ err' = "Scraping failed: " \o err
    /\ pc' = "manual_finally"
    /\ UNCHANGED << proc, entry, credentials, debugMode, session, loginLocals,
                    loginResult, scrapedBids, response, log >>
    /\ UNCHANGED refinementVars

\* finally { await scraper.cleanup() }
ManualFinally ==
    /\ proc = "running" /\ pc = "manual_finally"
    /\ Cleanup
    /\ pc' = "manual_respond"
    /\ UNCHANGED << proc, entry, credentials, debugMode, loginLocals, err,
                    loginResult, scrapedBids, response >>
    /\ UNCHANGED refinementVars

\* The label the outer catch of fetchSeptaBids gives an error message.
FetchErrorLabel(message) ==
    IF Includes(message, "credentials")
    THEN "Invalid credentials or authentication failed"
    ELSE IF Includes(message, "navigation") \/ Includes(message, "timeout")
    THEN "Network or portal access issue"
    ELSE IF Includes(message, "Scraper initialization")
    THEN "Browser initialization failed"
    ELSE "Failed to fetch SEPTA bids"

\* The response: the summary of the scraped list, or the labelled failure.
\* (The upsert loop between the two does not touch the session.)
ManualRespond ==
    /\ proc = "running" /\ pc = "manual_respond"
    /\ response' = IF err = ""
                   THEN [NoResponse EXCEPT !.status = 200,
                                           !.total = Len(scrapedBids)]
                   ELSE [NoResponse EXCEPT !.status = 500,
                                           !.error = FetchErrorLabel(err),
                                           !.details = err]
    /\ pc' = "done"
    /\ UNCHANGED << proc, entry, credentials, debugMode, session, loginLocals,
                    err, loginResult, scrapedBids, log >>
    /\ UNCHANGED refinementVars

\* ------------------------------------------------------ scheduledBidFetch

\* await scraper.cleanup() after scrapeBids() returned, then the upsert loop
\* and the summary line.
ScheduledCleanup ==
    /\ proc = "running" /\ pc = "scheduled_cleanup"
    /\ Cleanup
    /\ pc' = "done"
    /\ UNCHANGED << proc, entry, credentials, debugMode, loginLocals, err,
                    loginResult, scrapedBids, response >>
    /\ UNCHANGED refinementVars

\* catch (error) { logger.error(...) }: the only handler of the function.
ScheduledCatch ==
    /\ proc = "running" /\ pc = "scheduled_catch"
    /\ pc' = "done"
    /\ UNCHANGED << proc, entry, credentials, debugMode, session, loginLocals,
                    err, loginResult, scrapedBids, response, log >>
    /\ UNCHANGED refinementVars

\* ---------------------------------- testConnection / testSeptaCredentials

\* await this.cleanup(); return loginResult
TestConnectionReturn ==
    /\ proc = "running" /\ pc = "test_return"
    /\ Cleanup
    /\ response' = [response EXCEPT !.testPassed = (loginResult = "true")]
    /\ pc' = "test_respond"
    /\ UNCHANGED << proc, entry, credentials, debugMode, loginLocals, err,
                    loginResult, scrapedBids >>
    /\ UNCHANGED refinementVars

\* catch (error) { await this.cleanup(); return false }
TestConnectionCatch ==
    /\ proc = "running" /\ pc = "test_catch"
    /\ Cleanup
    /\ response' = [response EXCEPT !.testPassed = FALSE]
    /\ pc' = "test_respond"
    /\ UNCHANGED << proc, entry, credentials, debugMode, loginLocals, err,
                    loginResult, scrapedBids >>
    /\ UNCHANGED refinementVars

\* testSeptaCredentials after testConnection(): the message and the response.
TestRespond ==
    /\ proc = "running" /\ pc = "test_respond"
    /\ response' = [response EXCEPT
                      !.status = 200,
                      !.error = IF response.testPassed
                                THEN "Connection successful"
                                ELSE "Invalid credentials or portal access denied"]
    /\ pc' = "done"
    /\ UNCHANGED << proc, entry, credentials, debugMode, session, loginLocals,
                    err, loginResult, scrapedBids, log >>
    /\ UNCHANGED refinementVars

\* ---------------------------------------------------------------- signals

\* process.on('SIGTERM' | 'SIGINT'): a log line, then process.exit(0).
Signal ==
    /\ proc = "running"
    /\ proc' = "exited"
    /\ log' = log \o <<"process.exit">>
    /\ UNCHANGED << entry, pc, credentials, debugMode, session, loginLocals,
                    err, loginResult, scrapedBids, response >>
    /\ UNCHANGED refinementVars

Next ==
    \/ StartManual
    \/ StartScheduled
    \/ StartTest
    \/ Initialize
    \/ LoginEntry
    \/ LoginGoto
    \/ LoginWaitForm
    \/ LoginLocateFields
    \/ LoginFillUsername
    \/ LoginFillPassword
    \/ LoginLocateSubmit
    \/ LoginClick
    \/ LoginWaitNavigation
    \/ LoginVerify
    \/ LoginCatch
    \/ ScrapeBids
    \/ ManualCatch
    \/ ManualFinally
    \/ ManualRespond
    \/ ScheduledCleanup
    \/ ScheduledCatch
    \/ TestConnectionReturn
    \/ TestConnectionCatch
    \/ TestRespond
    \/ Signal

Spec == Init /\ [][Next]_vars

\* ------------------------------------------- initialize(), step by step

\* The configuration steps initialize() wraps in a try block of their own.
SubConfigSteps ==
    {"setUserAgent", "setExtraHTTPHeaders", "setViewportSize", "route", "mkdir"}

\* Mutant: setViewportSize is called outside a try block.
SubConfigThrowsViewport(step, failed) == failed /\ step = "setViewportSize"

\* catch (e) { logger.warn(...) } around each configuration step: its
\* failure never leaves initialize().
SubConfigThrows(step, failed) == FALSE

\* The outer catch: throw new Error(`Scraper initialization failed: ...`).
InitializeThrow(msg, l) ==
    /\ err' = "Scraper initialization failed: " \o msg
    /\ log' = l \o <<"initialize:throw">>
    /\ pc' = CallerCatch(entry)

\* One configuration step: a failure is a warning unless it is thrown.
SubConfig(step, failed, next) ==
    IF SubConfigThrows(step, failed)
    THEN /\ InitializeThrow(step, log \o <<step>>)
         /\ UNCHANGED warnings
    ELSE /\ warnings' = IF failed THEN warnings \cup {step} ELSE warnings
         /\ log' = log \o <<step>>
         /\ pc' = next
         /\ err' = err

\* chromium.launch(launchOptions), and on its failure the launch of the
\* system browser.
Launch ==
    /\ proc = "running" /\ pc = "initialize"
    /\ \E first \in {"ok"} \cup LaunchErrors, second \in {"ok"} \cup LaunchErrors :
         IF first = "ok" \/ second = "ok"
         THEN /\ launchedBy' = IF first = "ok" THEN "playwright" ELSE "system"
              /\ browserRef' = TRUE
              /\ browserOpen' = TRUE
              /\ log' = log \o <<"initialize", "chromium.launch">>
              /\ pc' = "init_newPage"
              /\ err' = err
         ELSE /\ launchedBy' = "failed"
              /\ InitializeThrow(second, log \o <<"initialize", "chromium.launch">>)
              /\ UNCHANGED << browserRef, browserOpen >>
    /\ UNCHANGED << proc, entry, credentials, debugMode, pageRef, pageOpen,
                    loginLocals, loginResult, scrapedBids, response,
                    pageMade, warnings >>
    /\ UNCHANGED << scrapeLocals, extractLocals, storeLocals,
                    serverLocals >>

\* this.page = await this.browser.newPage()
NewPage ==
    /\ proc = "running" /\ pc = "init_newPage"
    /\ \E outcome \in {"ok"} \cup NewPageErrors :
         IF outcome = "ok"
         THEN /\ pageMade' = "made"
              /\ pageRef' = TRUE
              /\ pageOpen' = TRUE
              /\ log' = log \o <<"browser.newPage">>
              /\ pc' = "init_userAgent"
              /\ err' = err
         ELSE /\ pageMade' = "failed"
              /\ InitializeThrow(outcome, log \o <<"browser.newPage">>)
              /\ UNCHANGED << pageRef, pageOpen >>
    /\ UNCHANGED << proc, entry, credentials, debugMode, browserRef, browserOpen,
                    loginLocals, loginResult, scrapedBids, response,
                    launchedBy, warnings >>
    /\ UNCHANGED << scrapeLocals, extractLocals, storeLocals,
                    serverLocals >>

\* page.setUserAgent(...), and in its catch page.setExtraHTTPHeaders(...)
\* in a try block of its own.
SetUserAgent ==
    /\ proc = "running" /\ pc = "init_userAgent"
    /\ \E failed \in BOOLEAN :
         SubConfig("setUserAgent", failed,
                   IF failed THEN "init_extraHeaders" ELSE "init_viewport")
    /\ UNCHANGED << proc, entry, credentials, debugMode, session, loginLocals,
                    loginResult, scrapedBids, response, launchedBy, pageMade >>
    /\ UNCHANGED << scrapeLocals, extractLocals, storeLocals,
                    serverLocals >>

SetExtraHTTPHeaders ==
    /\ proc = "running" /\ pc = "init_extraHeaders"
    /\ \E failed \in BOOLEAN :
         SubConfig("setExtraHTTPHeaders", failed, "init_viewport")
    /\ UNCHANGED << proc, entry, credentials, debugMode, session, loginLocals,
                    loginResult, scrapedBids, response, launchedBy, pageMade >>
    /\ UNCHANGED << scrapeLocals, extractLocals, storeLocals,
                    serverLocals >>

\* page.setViewportSize({ width: 1366, height: 768 })
SetViewportSize ==
    /\ proc = "running" /\ pc = "init_viewport"
    /\ \E failed \in BOOLEAN :
         SubConfig("setViewportSize", failed,
                   IF debugMode THEN "init_route" ELSE "init_mkdir")
    /\ UNCHANGED << proc, entry, credentials, debugMode, session, loginLocals,
                    loginResult, scrapedBids, response, launchedBy, pageMade >>
    /\ UNCHANGED << scrapeLocals, extractLocals, storeLocals,
                    serverLocals >>

\* if (this.debugMode) page.route('**/*', ...)
Route ==
    /\ proc = "running" /\ pc = "init_route"
    /\ \E failed \in BOOLEAN : SubConfig("route", failed, "init_mkdir")
    /\ UNCHANGED << proc, entry, credentials, debugMode, session, loginLocals,
                    loginResult, scrapedBids, response, launchedBy, pageMade >>
    /\ UNCHANGED << scrapeLocals, extractLocals, storeLocals,
                    serverLocals >>

\* fs.promises.mkdir(this.screenshotDir, { recursive: true })
MakeScreenshotDir ==
    /\ proc = "running" /\ pc = "init_mkdir"
    /\ \E failed \in BOOLEAN : SubConfig("mkdir", failed, "init_return")
    /\ UNCHANGED << proc, entry, credentials, debugMode, session, loginLocals,
                    loginResult, scrapedBids, response, launchedBy, pageMade >>
    /\ UNCHANGED << scrapeLocals, extractLocals, storeLocals,
                    serverLocals >>

\* return true
InitializeReturn ==
    /\ proc = "running" /\ pc = "init_return"
    /\ log' = log \o <<"initialize:return">>
    /\ pc' = "login"
    /\ UNCHANGED << proc, entry, credentials, debugMode, session, loginLocals,
                    err, loginResult, scrapedBids, response, initLocals >>
    /\ UNCHANGED << scrapeLocals, extractLocals, storeLocals,
                    serverLocals >>

\* An invocation whose initialize() is taken step by step, up to the
\* navigation to the login page or to the end of the failed invocation.
InitializeNext ==
    \/ StartManual
    \/ StartScheduled
    \/ StartTest
    \/ Launch
    \/ NewPage
    \/ SetUserAgent
    \/ SetExtraHTTPHeaders
    \/ SetViewportSize
    \/ Route
    \/ MakeScreenshotDir
    \/ InitializeReturn
    \/ LoginEntry
    \/ LoginGoto
    \/ LoginCatch
    \/ ManualCatch
    \/ ManualFinally
    \/ ManualRespond
    \/ ScheduledCatch
    \/ TestConnectionCatch
    \/ TestRespond

InitializeSpec == Init /\ [][InitializeNext]_vars

\* ------------------------------------ the text of a row, character by character

\* The characters of a string, and the characters it is made of.
Chars(t) == [i \in 1..Len(t) |-> SubSeq(t, i, i)]
CharSet(t) == { SubSeq(t, i, i) : i \in 1..Len(t) }

\* \d, \s, [a-zA-Z0-9\-] and the other character classes of the expressions.
Digit == CharSet("0123456789")
Space == {" ", "\t", "\n", "\r"}
UpperCase == "ABCDEFGHIJKLMNOPQRSTUVWXYZ"
LowerCase == "abcdefghijklmnopqrstuvwxyz"
IdChar == CharSet(UpperCase) \cup CharSet(LowerCase) \cup Digit \cup {"-"}

\* String.prototype.toLowerCase()
ToLowerCase(t) ==
    LET low(c) == IF c \in CharSet(UpperCase)
                  THEN LET i == CHOOSE j \in 1..Len(UpperCase) :
                                    SubSeq(UpperCase, j, j) = c
                       IN  SubSeq(LowerCase, i, i)
                  ELSE c
        RECURSIVE go(_, _)
        go(a, b) == IF a > b THEN ""
                    ELSE IF a = b THEN low(SubSeq(t, a, a))
                         ELSE go(a, (a + b) \div 2) \o go((a + b) \div 2 + 1, b)
    IN  go(1, Len(t))

\* String.prototype.trim()
Trim(t) ==
    LET inner == { i \in 1..Len(t) : SubSeq(t, i, i) \notin Space }
    IN  IF inner = {} THEN ""
        ELSE SubSeq(t, CHOOSE i \in inner : \A j \in inner : i <= j,
                       CHOOSE i \in inner : \A j \in inner : j <= i)

\* t.trim().split(/\s+/): the maximal runs of non-blank characters.  (An
\* empty string splits into the one empty token.)
Words(t) ==
    LET split(s) ==
            LET blank(i) == i < 1 \/ i > Len(s) \/ SubSeq(s, i, i) \in Space
                end(i) == CHOOSE j \in i..Len(s) :
                              blank(j + 1) /\ \A x \in i..j : ~blank(x)
                starts == { j \in 1..Len(s) : ~blank(j) /\ blank(j - 1) }
                RECURSIVE from(_)
                from(S) ==
                    IF S = {} THEN << >>
                    ELSE LET first == CHOOSE j \in S : \A l \in S : j <= l
                         IN  << SubSeq(s, first, end(first)) >>
                             \o from(S \ {first})
            IN  IF s = "" THEN << "" >> ELSE from(starts)
    IN  split(Trim(t))

\* Array.prototype.join(' ')
RECURSIVE Join(_)
Join(words) ==
    IF words = << >> THEN ""
    ELSE IF Len(words) = 1 THEN words[1]
         ELSE words[1] \o " " \o Join(Tail(words))

\* parseInt() of a run of digits.
ParseInt(t) ==
    LET val(c) == CHOOSE v \in 0..9 : SubSeq("0123456789", v + 1, v + 1) = c
        RECURSIVE go(_, _)
        go(i, acc) == IF i > Len(t) THEN acc
                      ELSE go(i + 1, 10 * acc + val(SubSeq(t, i, i)))
    IN  go(1, 0)

\* ------------------------------------------------- the regular expressions

\* An expression is a list of variants tried in order at each position (a
\* trailing optional group is written as the variant with it, then the
\* variant without it); a variant is a list of items; an item is an ordered
\* alternation of literals, or a character class repeated min..max times
\* (max = Many: any number of times), longest first.  group names the
\* items of the first capture group.
Alt(words) == [words |-> words, set |-> {}, min |-> 1, max |-> 1]
Rep(set, min, max) == [words |-> << >>, set |-> set, min |-> min, max |-> max]
Many == 0 - 1

\* The match of items k.. of a variant at position i of the characters cs:
\* the positions at which the items begin, then the position after the
\* match; << >> if there is none.  With end # 0 the match has to stop
\* right before position end (the $ anchor).
RECURSIVE MatchAt(_, _, _, _, _)
MatchAt(cs, i, items, k, end) ==
    IF k > Len(items)
    THEN IF end = 0 \/ i = end THEN << i >> ELSE << >>
    ELSE LET e == items[k]
             RECURSIVE alt(_)
             alt(j) ==
                 IF j > Len(e.words) THEN << >>
                 ELSE LET w == e.words[j]
                          here == /\ i + Len(w) - 1 <= Len(cs)
                                  /\ \A x \in 1..Len(w) :
                                       cs[i + x - 1] = SubSeq(w, x, x)
                          rest == IF here
                                  THEN MatchAt(cs, i + Len(w), items, k + 1, end)
                                  ELSE << >>
                      IN  IF rest # << >> THEN << i >> \o rest ELSE alt(j + 1)
             most == IF e.max # Many /\ e.max < Len(cs) - i + 1
                     THEN e.max ELSE Len(cs) - i + 1
             run == CHOOSE n \in 0..most :
                      /\ \A x \in 0..(n - 1) : cs[i + x] \in e.set
                      /\ n = most \/ cs[i + n] \notin e.set
             RECURSIVE rep(_)
             rep(n) ==
                 IF n < e.min THEN << >>
                 ELSE LET rest == MatchAt(cs, i + n, items, k + 1, end)
                      IN  IF rest # << >> THEN << i >> \o rest ELSE rep(n - 1)
         IN  IF e.words # << >> THEN alt(1) ELSE rep(run)

\* String.prototype.match() with a g expression: every match, from left to
\* right, each starting where the one before ended; a match is recorded
\* with its text and the text of its capture group.
GlobalMatches(text, regex) ==
    LET over(cs) ==
            LET RECURSIVE variant(_, _)
                variant(i, v) ==
                    LET hit(b) ==
                            IF b # << >>
                            THEN << [full |-> SubSeq(text, i, b[Len(b)] - 1),
                                     group |-> SubSeq(text, b[regex.group[v][1]],
                                                      b[regex.group[v][2] + 1] - 1),
                                     next |-> b[Len(b)]] >>
                            ELSE variant(i, v + 1)
                    IN  IF v > Len(regex.variants) THEN << >>
                        ELSE hit(MatchAt(cs, i, regex.variants[v], 1, 0))
                RECURSIVE scan(_, _)
                scan(i, starts) ==
                    LET take(m) == << [full |-> m[1].full, group |-> m[1].group] >>
                                   \o scan(m[1].next, starts)
                        later == { j \in starts : j >= i }
                    IN  IF later = {} THEN << >>
                        ELSE take(variant(CHOOSE j \in later :
                                              \A l \in later : j <= l, 1))
            IN  scan(1, { i \in 1..Len(cs) : variant(i, 1) # << >> })
    IN  over(Chars(IF regex.ci THEN ToLowerCase(text) ELSE text))

\* ------------------------------------------------------------- parseDate()

\* A Date is the number of its day, counted from 1 March of year 0; the
\* time of day is not kept.

\* The day number of day d of month m (1..12) of year y.
DayNumber(y, m, d) ==
    LET yy == IF m <= 2 THEN y - 1 ELSE y
        yoe == yy % 400
        doy == (153 * ((m + 9) % 12) + 2) \div 5 + d - 1
    IN  (yy \div 400) * 146097 + yoe * 365 + yoe \div 4 - yoe \div 100 + doy

\* Date.prototype.getFullYear()
FullYear(n) ==
    LET doe == n % 146097
        yoe == (doe - doe \div 1460 + doe \div 36524 - doe \div 146096) \div 365
        doy == doe - (365 * yoe + yoe \div 4 - yoe \div 100)
    IN  yoe + (n \div 146097) * 400 + (IF (5 * doy + 2) \div 153 >= 10 THEN 1 ELSE 0)

\* new Date(year, monthIndex, day): a year 0..99 is taken as 1900 + year,
\* and months and days beyond the calendar's carry over.
NewDate(year, monthIndex, day) ==
    LET y == IF year >= 0 /\ year <= 99 THEN 1900 + year ELSE year
    IN  DayNumber(y + monthIndex \div 12, (monthIndex % 12) + 1, 1) + day - 1

\* date.getFullYear() > 1900 && date.getFullYear() < 2100
YearAbove == 1900
YearBelow == 2100

monthNames ==
    << "Jan", "Feb", "Mar", "Apr", "May", "Jun",
       "Jul", "Aug", "Sep", "Oct", "Nov", "Dec" >>

\* The alternation (Jan|Feb|...|Dec) under the i flag.
MonthAlt == Alt([i \in 1..Len(monthNames) |-> ToLowerCase(monthNames[i])])

\* The four expressions of dateFormats, between ^ and $.
dateFormats ==
    << << Rep(Digit, 1, 2), Rep({"/", "-"}, 1, 1), Rep(Digit, 1, 2),
          Rep({"/", "-"}, 1, 1), Rep(Digit, 2, 4) >>,
       << Rep(Digit, 4, 4), Rep({"/", "-"}, 1, 1), Rep(Digit, 1, 2),
          Rep({"/", "-"}, 1, 1), Rep(Digit, 1, 2) >>,
       << MonthAlt, Rep(Space, 1, Many), Rep(Digit, 1, 2), Rep({","}, 0, 1),
          Rep(Space, 1, Many), Rep(Digit, 4, 4) >>,
       << Rep(Digit, 1, 2), Rep(Space, 1, Many), MonthAlt, Rep(Space, 1, Many),
          Rep(Digit, 4, 4) >> >>

\* parseDate(dateString): the date of the first format that matches and
\* whose date passes the year test; otherwise what new Date(cleanDate)
\* gives, if it is a date; otherwise null.  The built-in parser is the one
\* of the runtime the scraper runs on, for the strings of the four formats:
\* it takes the year as written (two digits: 20xx below 50, else 19xx),
\* wants a month 1..12 (or a month name) and a day 1..31, and gives no date
\* for any other string.
ParseDate(dateString) ==
    LET parse(clean, m) ==
            LET piece(f, k) == SubSeq(clean, m[f][k], m[f][k + 1] - 1)
                number(f, k) == ParseInt(piece(f, k))
                \* monthNames.indexOf(match[k].substr(0, 3)) + 1
                indexOf(w) ==
                    IF \E i \in 1..Len(monthNames) : monthNames[i] = w
                    THEN CHOOSE i \in 1..Len(monthNames) : monthNames[i] = w
                    ELSE 0
                named(w) == CHOOSE i \in 1..Len(monthNames) :
                                ToLowerCase(monthNames[i]) = ToLowerCase(w)
                pivot(y) == IF y < 100
                            THEN (IF y < 50 THEN y + 2000 ELSE y + 1900)
                            ELSE y
                \* year, month and day as the format's branch reads them
                read == [f \in 1..Len(dateFormats) |->
                           IF m[f] = << >> THEN << >>
                           ELSE CASE f = 1 -> << pivot(number(1, 5)), number(1, 1),
                                                number(1, 3), number(1, 1) >>
                                  [] f = 2 -> << number(2, 1), number(2, 3),
                                                number(2, 5), number(2, 3) >>
                                  [] f = 3 -> << number(3, 6), indexOf(piece(3, 1)),
                                                number(3, 3), named(piece(3, 1)) >>
                                  [] f = 4 -> << number(4, 5), indexOf(piece(4, 3)),
                                                number(4, 1), named(piece(4, 3)) >>]
                decide(r) ==
                    LET built(f) == NewDate(r[f][1], r[f][2] - 1, r[f][3])
                        valid(f) == /\ r[f] # << >>
                                    /\ FullYear(built(f)) > YearAbove
                                    /\ FullYear(built(f)) < YearBelow
                        first == CHOOSE f \in 1..Len(dateFormats) : r[f] # << >>
                        fallbackDate ==
                            IF \A f \in 1..Len(dateFormats) : r[f] = << >>
                            THEN NoDate
                            ELSE IF r[first][4] \in 1..12 /\ r[first][3] \in 1..31
                                 THEN DayNumber(r[first][1], r[first][4], 1)
                                      + r[first][3] - 1
                                 ELSE NoDate
                    IN  IF \E f \in 1..Len(dateFormats) : valid(f)
                        THEN built(CHOOSE f \in 1..Len(dateFormats) :
                                       valid(f) /\ \A g \in 1..(f - 1) : ~valid(g))
                        ELSE fallbackDate
            IN  IF clean = "" THEN NoDate ELSE decide(read)
        match(clean, cs) ==
            parse(clean, [f \in 1..Len(dateFormats) |->
                             MatchAt(cs, 1, dateFormats[f], 1, Len(cs) + 1)])
        cleaned(clean) == match(clean, Chars(ToLowerCase(clean)))
    IN  cleaned(Trim(dateString))

\* --------------------------------- extractBidDataFromElement(), the fields

\* A variant with a capture group over items from..to, and an expression.
Regex(variants, group) == [variants |-> variants, group |-> group, ci |-> TRUE]

\* datePatterns: the four expressions of dateFormats without the anchors.
\* (The i flag changes nothing for the two numeric ones.)
datePatterns ==
    [f \in 1..Len(dateFormats) |->
        Regex(<< dateFormats[f] >>, << << 1, Len(dateFormats[f]) >> >>)]

Money == Rep(Digit \cup {","}, 1, Many)
Cents == << Alt(<< "." >>), Rep(Digit, 2, 2) >>

\* amountPatterns; they have no capture group.
amountPatterns ==
    << Regex(<< << Alt(<< "$" >>), Money >> \o Cents,
                << Alt(<< "$" >>), Money >> >>,
             << << 1, 4 >>, << 1, 2 >> >>),
       Regex(<< << Alt(<< "$" >>), Rep(Space, 0, Many), Money >> \o Cents,
                << Alt(<< "$" >>), Rep(Space, 0, Many), Money >> >>,
             << << 1, 5 >>, << 1, 3 >> >>),
       Regex(<< << Alt(<< "usd" >>), Rep(Space, 0, Many), Money >> \o Cents,
                << Alt(<< "usd" >>), Rep(Space, 0, Many), Money >> >>,
             << << 1, 5 >>, << 1, 3 >> >>),
       Regex(<< << Alt(<< "amount:" >>), Rep(Space, 0, Many), Rep({"$"}, 0, 1),
                   Money >> \o Cents,
                << Alt(<< "amount:" >>), Rep(Space, 0, Many), Rep({"$"}, 0, 1),
                   Money >> >>,
             << << 1, 6 >>, << 1, 4 >> >>) >>

qtyPatterns ==
    << Regex(<< << Alt(<< "qty", "quantity" >>), Rep(Space \cup {":"}, 0, Many),
                   Rep(Digit, 1, Many), Alt(<< "." >>), Rep(Digit, 1, Many) >>,
                << Alt(<< "qty", "quantity" >>), Rep(Space \cup {":"}, 0, Many),
                   Rep(Digit, 1, Many) >> >>,
             << << 3, 5 >>, << 3, 3 >> >>),
       Regex(<< << Rep(Digit, 1, Many), Rep(Space, 0, Many),
                   Alt(<< "each", "units", "unit", "pieces", "piece", "items",
                          "item" >>) >> >>,
             << << 1, 1 >> >>),
       Regex(<< << Alt(<< "amount:" >>), Rep(Space, 0, Many),
                   Rep(Digit, 1, Many) >> >>,
             << << 3, 3 >> >>) >>

Label(words) ==
    Regex(<< << Alt(words), Rep(Space \cup {"#", ":"}, 0, Many),
                Rep(IdChar, 1, Many) >> >>,
          << << 3, 3 >> >>)

idPatterns ==
    << Label(<< "req", "requisition" >>), Label(<< "bid", "rfp", "rfq" >>),
       Label(<< "solicitation" >>),
       Regex(<< << Alt(<< "#" >>), Rep(IdChar, 1, Many) >> >>, << << 2, 2 >> >>) >>

\* for (const pattern of patterns) { const m = text.match(pattern);
\* if (m) { ...; break } }: the matches of the first expression, in list
\* order, that matches at all; << >> if none does.
FirstMatching(text, patterns) ==
    LET RECURSIVE go(_)
        go(p) == LET pick(m) == IF m # << >> THEN m ELSE go(p + 1)
                 IN  IF p > Len(patterns) THEN << >>
                     ELSE pick(GlobalMatches(text, patterns[p]))
    IN  go(1)

\* What reading an index beyond the end of an array gives.
Undefined == "undefined"

\* match[1] of the array a g expression's match() returns: the array holds
\* the text of each match, so index 1 is the second match.
MatchIndexOne(matches) ==
    IF matches = << >> THEN ""
    ELSE IF Len(matches) > 1 THEN matches[2].full ELSE Undefined

\* amountMatches[0].replace(/[^\d,.$]/g, '')
AmountOf(text) ==
    LET RECURSIVE keep(_, _)
        keep(t, i) ==
            IF i > Len(t) THEN ""
            ELSE (IF SubSeq(t, i, i) \in Digit \cup {",", ".", "$"}
                  THEN SubSeq(t, i, i) ELSE "") \o keep(t, i + 1)
        strip(m) == IF m = << >> THEN "" ELSE keep(m[1].full, 1)
    IN  strip(FirstMatching(text, amountPatterns))

\* The strings of allDates, parsed, without the nulls, in ascending order.
ParsedDates(text) ==
    LET RECURSIVE all(_)
        all(p) == IF p > Len(datePatterns) THEN << >>
                  ELSE GlobalMatches(text, datePatterns[p]) \o all(p + 1)
        sort(dates) ==
            LET RECURSIVE sorted(_)
                sorted(S) ==
                    IF S = {} THEN << >>
                    ELSE LET i == CHOOSE j \in S : \A l \in S : dates[j] <= dates[l]
                         IN  << dates[i] >> \o sorted(S \ {i})
            IN  sorted({ i \in 1..Len(dates) : dates[i] # NoDate })
        parse(found) == sort([i \in 1..Len(found) |-> ParseDate(found[i].full)])
    IN  parse(all(1))

\* words.length >= 3 and words.slice(0, 10)
FallbackMinWords == 3
FallbackWords == 10

\* Mutant: the fallback takes the tokens of a row of any length.
FallbackTitleOfAny(text) ==
    LET title(words) ==
            Join(SubSeq(words, 1, IF Len(words) < FallbackWords
                                  THEN Len(words) ELSE FallbackWords))
    IN  title(Words(text))

\* if (!bid.title) { const words = elementText.trim().split(/\s+/);
\* if (words.length >= 3) bid.title = words.slice(0, 10).join(' ') }
FallbackTitle(text) ==
    LET title(words) ==
            IF Len(words) >= FallbackMinWords
            THEN Join(SubSeq(words, 1, IF Len(words) < FallbackWords
                                       THEN Len(words) ELSE FallbackWords))
            ELSE ""
    IN  title(Words(text))

bidKeywords ==
    << "solicitation", "bid", "rfp", "rfq", "proposal", "contract",
       "procurement", "vendor", "invitation", "award", "notice",
       "requisition", "quote", "purchase", "services", "supplies",
       "equipment", "maintenance", "construction", "repair", "consulting",
       "professional", "installation", "delivery" >>

\* isBidRelated(text)
isBidRelated(text) ==
    LET lowerText == ToLowerCase(text)
    IN  \E k \in 1..Len(bidKeywords) : Includes(lowerText, bidKeywords[k])

\* --------------------- extractBidDataFromElement(), chains and expiry test

\* if (titleText && titleText.length > 10)
TitleMinLength == 10

titleSelectors ==
    << "td:first-child a", "td:first-child", ".title", ".requisition-title",
       "h3", "h4", "a[href*=\"requisition\"]", "a[href*=\"bid\"]" >>

linkSelectors ==
    << "a[href*=\"requisition\"]", "a[href*=\"bid\"]", "a[href*=\"detail\"]",
       "a[href*=\"view\"]", "a[href]" >>

\* Mutant: the last accepted value of the chain is kept.
WalkChainLast(dom, i, min) ==
    LET S == {j \in i..Len(dom) : Len(dom[j]) > min}
    IN  IF S = {} THEN NoField
        ELSE LET j == CHOOSE k \in S : \A l \in S : l <= k
             IN  [via |-> j, value |-> dom[j]]

\* The title loop and the link loop: the first selector, in list order,
\* whose element gives a value longer than min ends the loop.
RECURSIVE WalkChain(_, _, _)
WalkChain(dom, i, min) ==
    IF i > Len(dom) THEN NoField
    ELSE IF Len(dom[i]) > min THEN [via |-> i, value |-> dom[i]]
         ELSE WalkChain(dom, i + 1, min)

\* Mutant: the expiry filter is lost.
ExpiredNever(due, now) == FALSE

\* if (bid.dueDate && bid.dueDate < new Date()) return null
Expired(due, now) == due # NoDate /\ due < now

\* generateHash(text): crypto.createHash('sha256').update(text).digest('hex').
\* SHA-256 itself is not computed: the digest is cut down to a sixteen-bit
\* checksum of the characters of text, each weighted by its position,
\* written as four hexadecimal digits.  It keeps that the digest is a string of fixed width
\* computed from the characters of text and from nothing else, and that
\* distinct texts may share a digest.
generateHash(text) ==
    LET printable == " !\"#$%&'()*+,-./0123456789:;<=>?@" \o UpperCase
                     \o "[]^_" \o LowerCase \o "{|}~"
        code(c) == IF c \in CharSet(printable)
                   THEN CHOOSE i \in 1..Len(printable) :
                            SubSeq(printable, i, i) = c
                   ELSE 0
        RECURSIVE sum(_, _)
        sum(a, b) == IF a > b THEN 0
                     ELSE IF a = b THEN (a * code(SubSeq(text, a, a))) % 65536
                          ELSE (sum(a, (a + b) \div 2)
                                + sum((a + b) \div 2 + 1, b)) % 65536
        hex(v) == SubSeq("0123456789abcdef", v + 1, v + 1)
        h == sum(1, Len(text))
    IN  hex(h \div 4096) \o hex((h \div 256) % 16) \o hex((h \div 16) % 16)
        \o hex(h % 16)

\* Mutant: the link is hashed along with the title.
HashedTextWithLink(b) == b.title \o b.link

\* bid.titleHash = generateHash(bid.title)
HashedText(b) == b.title

\* new URL(href, this.page.url()).toString() for an absolute URL and for a
\* path on the portal's origin.
ResolveUrl(href) ==
    IF Includes(href, "://") THEN href
    ELSE "https://epsadmin.septa.org" \o href

\* The first part of extractBidDataFromElement(): the blank-row test, the
\* title chain and the fallback title.  A row is what its element holds for
\* the title chain and for the link chain, and its text.
ResolveTitle(row) ==
    IF Trim(row.text) = "" THEN NullBid
    ELSE LET taken == WalkChain(row.title, 1, TitleMinLength).value
         IN  [NewBid EXCEPT !.title = IF taken # "" THEN taken
                                      ELSE FallbackTitle(row.text)]

\* if (!bid.title || !this.isBidRelated(bid.title)) return null
RelevanceGate(b) ==
    IF b.title = "" \/ ~isBidRelated(b.title) THEN NullBid ELSE b

\* The link chain.
WithLink(b, row) ==
    LET href == WalkChain(row.link, 1, 0).value
    IN  [b EXCEPT !.link = IF href # "" THEN ResolveUrl(href) ELSE ""]

\* Mutant: the due date is set from a single parsed date as well.
DueDateOfAny(dates) == IF Len(dates) > 0 THEN dates[Len(dates)] ELSE NoDate

\* if (parsedDates.length > 1) bid.dueDate = parsedDates[parsedDates.length - 1]
DueDateOf(dates) == IF Len(dates) > 1 THEN dates[Len(dates)] ELSE NoDate

\* bid.postedDate = parsedDates[0], and the due date.
WithDates(b, text) ==
    LET set(dates) ==
            [b EXCEPT !.postedDate = IF Len(dates) > 0 THEN dates[1] ELSE NoDate,
                      !.dueDate = DueDateOf(dates)]
    IN  set(ParsedDates(text))

\* The amount, the quantity, the external id and the description.
WithLabels(b, text) ==
    [b EXCEPT !.amount = AmountOf(text),
              !.quantity = MatchIndexOne(FirstMatching(text, qtyPatterns)),
              !.externalId = MatchIndexOne(FirstMatching(text, idPatterns)),
              !.description = Join(Words(text))]

\* The expiry filter and the hash.
Finish(b, now) ==
    IF Expired(b.dueDate, now) THEN NullBid
    ELSE [b EXCEPT !.titleHash = generateHash(HashedText(b))]

\* extractBidDataFromElement(element) at time now: the record, or NullBid.
ExtractBidData(row, now) ==
    LET titled == ResolveTitle(row)
        gated == IF titled = NullBid THEN NullBid ELSE RelevanceGate(titled)
    IN  IF gated = NullBid THEN NullBid
        ELSE Finish(WithLabels(WithDates(WithLink(gated, row), row.text),
                               row.text), now)

\* -------------------------------------------- scrapeBids(), step by step

MaxQuotesMatches == 1   \* view-listings selectors that match on the dashboard
MaxSearchMatches == 1   \* search-trigger selectors that match on the listing page
MaxSitePages == 1       \* distinct pages of a listing (pagination is cyclic)
MaxRows == 2            \* rows of one listing page

\* while (hasMorePages && currentPage <= 50)
PageLimit == 50

quotesLinkSelectors ==
    << "a:has-text(\"Quotes Under $100,000\")", "a[href*=\"requisitions\"]",
       "a[href*=\"quotes\"]", "a:has-text(\"Requisitions\")",
       "a:has-text(\"Procurement\")", "a:has-text(\"Bids\")",
       "[href*=\"search\"]", "text=Quotes Under" >>

searchButtonSelectors ==
    << "button:has-text(\"Search\")", "input[type=\"submit\"]",
       "button[type=\"submit\"]", "[value=\"Search\"]", ".search-button",
       "#search-button" >>

\* (The second selector holds a right-arrow character, written -> here.)
nextButtonSelectors ==
    << "a:has-text(\"Next\")", "a:has-text(\"->\")", "a[href*=\"page=\"]",
       ".pagination a:last-child", "[class*=\"next\"]", "[aria-label*=\"Next\"]" >>

QuotesDoms == ChainDoms(Len(quotesLinkSelectors), MaxQuotesMatches)
SearchDoms == ChainDoms(Len(searchButtonSelectors), MaxSearchMatches)

\* The message of an idle-network wait that ran out.
LoadTimeout == "page.waitForLoadState: Timeout 15000ms exceeded."

\* What getAttribute('href') returns for a pagination control: "" stands for
\* no attribute (null) and for the empty attribute, both falsy.
Hrefs ==
    { "", "#", "/vendor/requisitions/list/?page=2",
      "/vendor/requisitions/list/?page=2#results" }

\* The pagination bars a listing page shows: no control, or one control,
\* matched by the first or by the last selector of the chain.
ListingNextDoms ==
    { [i \in 1..Len(nextButtonSelectors) |->
          IF i = c.sel THEN c ELSE NullControl] :
        c \in [sel : {1, Len(nextButtonSelectors)}, visible : BOOLEAN, href : Hrefs] }
    \cup { [i \in 1..Len(nextButtonSelectors) |-> NullControl] }

\* if (href && !href.includes('#'))
HrefTrusted(href) == href # "" /\ ~Includes(href, "#")

\* The next-page loop: a lookup's element ends the loop when it is visible
\* and its href is trusted; otherwise the variable is reset to null.
RECURSIVE WalkNext(_, _)
WalkNext(dom, i) ==
    IF i > Len(dom) THEN NullControl
    ELSE IF dom[i] # NullControl /\ dom[i].visible /\ HrefTrusted(dom[i].href)
         THEN dom[i]
         ELSE WalkNext(dom, i + 1)

\* The listings: a cycle of 1..MaxSitePages pages.
Sites == UNION { [1..n -> 0..MaxRows] : n \in 1..MaxSitePages }

\* The page of the listing the browser shows in iteration k of the loop.
PageIndex(s, k) == ((k - 1) % Len(s)) + 1

\* What extractBidsFromCurrentPage() returns in iteration k for a page that
\* yields n records: the records in row order.  (Its own catch blocks keep
\* every exception inside; with no row element it returns the empty list.)
PageRecords(k, n) == [r \in 1..n |-> <<k, r>>]

\* Mutant: the loop test lets one more iteration through.
LoopContinuesOneMore(more, page) == more /\ page <= PageLimit + 1

\* while (hasMorePages && currentPage <= 50)
LoopContinues(more, page) == more /\ page <= PageLimit

\* Mutant: the page's list replaces the accumulated one.
AccumulateLast(acc, list) == list

\* bids.push(...pageBids)
Accumulate(acc, list) == acc \o list

\* What scrapeBids() never writes.
outsideScrape == << proc, entry, credentials, debugMode, session, loginLocals,
                    loginResult, response, initLocals, extractLocals,
                    storeLocals,
                    serverLocals >>

\* The session when login() has returned true in a manual fetch.
SessionReady ==
    /\ proc = "running"
    /\ entry = "manual"
    /\ credentials = DecryptedPair
    /\ debugMode \in BOOLEAN
    /\ browserRef = TRUE /\ pageRef = TRUE
    /\ browserOpen = TRUE /\ pageOpen = TRUE
    /\ domSeen = NoDom
    /\ usernameField = NullElement
    /\ passwordField = NullElement
    /\ submitButton = NullElement
    /\ navWait = "idle"
    /\ currentUrl = "https://epsadmin.septa.org/vendor/dashboard"
    /\ markers = {}
    /\ err = ""
    /\ loginResult = "true"
    /\ scrapedBids = <<>>
    /\ response = NoResponse
    /\ log = <<"initialize", "login", "login:return true">>
    /\ launchedBy = "pending"
    /\ pageMade = "pending"
    /\ warnings = {}

\* The state in which the fetch entry point calls scrapeBids().
ScrapeInit ==
    /\ SessionReady
    /\ pc = "scrape"
    /\ ScrapeIdle
    /\ ExtractIdle
    /\ StoreIdle
    /\ ServerIdle

\* An exception inside scrapeBids()'s try block: the block's locals go out
\* of scope, the message travels in err.
ThrowInScrape(msg, l) ==
    /\ err' = msg
    /\ log' = l
    /\ pc' = "sb_catch"
    /\ quotesLink' = NullElement
    /\ searchButton' = NullElement

\* page.goto('https://epsadmin.septa.org/vendor/'), then the snapshot.
ScrapeGotoDashboard ==
    /\ proc = "running" /\ pc = "scrape"
    /\ \E outcome \in {"loaded"} \cup GotoErrors :
         IF outcome = "loaded"
         THEN /\ log' = Shot(log \o <<"scrapeBids", "page.goto:vendor">>,
                             pageRef, debugMode)
              /\ pc' = "sb_quotes"
              /\ UNCHANGED << err, quotesLink, searchButton >>
         ELSE ThrowInScrape(outcome, log \o <<"scrapeBids", "page.goto:vendor">>)
    /\ UNCHANGED << linksSeen, loadWait, site, currentPage, hasMorePages, bids,
                    nextSeen, nextButton, scrapedBids >>
    /\ UNCHANGED pageError
    /\ UNCHANGED outsideScrape

\* The walk of the view-listings chain.
FindQuotesLink ==
    /\ proc = "running" /\ pc = "sb_quotes"
    /\ \E d \in QuotesDoms :
         /\ linksSeen' = d
         /\ quotesLink' = WalkVisible(d, 1, NullElement)
    /\ pc' = "sb_quotesIf"
    /\ UNCHANGED << searchButton, loadWait, site, currentPage, hasMorePages,
                    bids, nextSeen, nextButton, scrapedBids, err, log >>
    /\ UNCHANGED pageError
    /\ UNCHANGED outsideScrape

\* if (quotesLink) { click, idle-network wait, snapshot } else { goto the
\* search URL, and in its catch goto the list URL }.  The click waits for
\* the element to become actionable and raises when it does not.
FollowQuotesLink ==
    /\ proc = "running" /\ pc = "sb_quotesIf"
    /\ IF quotesLink # NullElement
       THEN \E outcome \in {"idle", "timeout"} \cup ClickErrors :
              CASE outcome = "idle" ->
                     /\ log' = Shot(log \o <<"click:quotes", "waitForLoadState">>,
                                    pageRef, debugMode)
                     /\ loadWait' = "idle"
                     /\ pc' = "sb_search"
                     /\ UNCHANGED << err, quotesLink, searchButton >>
                [] outcome = "timeout" ->
                     /\ loadWait' = "timeout"
                     /\ ThrowInScrape(LoadTimeout,
                                      log \o <<"click:quotes", "waitForLoadState">>)
                [] OTHER ->
                     /\ loadWait' = loadWait
                     /\ ThrowInScrape(outcome, log \o <<"click:quotes">>)
       ELSE /\ loadWait' = loadWait
            /\ \E search \in {"loaded"} \cup GotoErrors,
                  list \in {"loaded"} \cup GotoErrors :
                 CASE search = "loaded" ->
                        /\ log' = Shot(log \o <<"page.goto:search">>,
                                       pageRef, debugMode)
                        /\ pc' = "sb_search"
                        /\ UNCHANGED << err, quotesLink, searchButton >>
                   [] search # "loaded" /\ list = "loaded" ->
                        /\ log' = Shot(log \o <<"page.goto:search", "page.goto:list">>,
                                       pageRef, debugMode)
                        /\ pc' = "sb_search"
                        /\ UNCHANGED << err, quotesLink, searchButton >>
                   [] OTHER ->
                        ThrowInScrape(list,
                                      log \o <<"page.goto:search", "page.goto:list">>)
    /\ UNCHANGED << linksSeen, site, currentPage, hasMorePages, bids, nextSeen,
                    nextButton, scrapedBids >>
    /\ UNCHANGED pageError
    /\ UNCHANGED outsideScrape

\* The walk of the search-trigger chain.  The dashboard is behind: what it
\* held and the link handle are not read again.
FindSearchButton ==
    /\ proc = "running" /\ pc = "sb_search"
    /\ \E d \in SearchDoms : searchButton' = WalkVisible(d, 1, NullElement)
    /\ linksSeen' = Unseen
    /\ quotesLink' = NullElement
    /\ pc' = "sb_searchIf"
    /\ UNCHANGED << loadWait, site, currentPage, hasMorePages, bids, nextSeen,
                    nextButton, scrapedBids, err, log >>
    /\ UNCHANGED pageError
    /\ UNCHANGED outsideScrape

\* if (searchButton) { click, idle-network wait, snapshot }, then the loop
\* variables are initialised; the listing the browser now shows is one of
\* Sites.
SubmitSearch ==
    /\ proc = "running" /\ pc = "sb_searchIf"
    /\ \E outcome \in {"idle", "timeout"} \cup ClickErrors, s \in Sites :
         CASE searchButton = NullElement \/ outcome = "idle" ->
                /\ log' = IF searchButton = NullElement THEN log
                          ELSE Shot(log \o <<"click:search", "waitForLoadState">>,
                                    pageRef, debugMode)
                /\ loadWait' = IF searchButton = NullElement THEN loadWait
                               ELSE "idle"
                /\ site' = s
                /\ currentPage' = 1
                /\ hasMorePages' = TRUE
                /\ searchButton' = NullElement
                /\ pc' = "sb_while"
                /\ UNCHANGED << err, quotesLink >>
           [] searchButton # NullElement /\ outcome = "timeout" ->
                /\ loadWait' = "timeout"
                /\ ThrowInScrape(LoadTimeout,
                                 log \o <<"click:search", "waitForLoadState">>)
                /\ UNCHANGED << site, currentPage, hasMorePages >>
           [] OTHER ->
                /\ ThrowInScrape(outcome, log \o <<"click:search">>)
                /\ UNCHANGED << loadWait, site, currentPage, hasMorePages >>
    /\ UNCHANGED << linksSeen, bids, nextSeen, nextButton, scrapedBids >>
    /\ UNCHANGED pageError
    /\ UNCHANGED outsideScrape

\* One pass of the loop body up to the next-page lookup: the page's records
\* are appended, and the first page is snapshot.  On a page where no row
\* selector matches, extractBidsFromCurrentPage() reads the text of the
\* body before it returns its empty list; an exception of that read is
\* caught by its outer catch, which logs it and falls through to the same
\* return.
ExtractPage ==
    /\ proc = "running" /\ pc = "sb_while"
    /\ LoopContinues(hasMorePages, currentPage)
    /\ bids' = Accumulate(bids,
                  PageRecords(currentPage, site[PageIndex(site, currentPage)]))
    /\ pageError' \in IF site[PageIndex(site, currentPage)] = 0
                      THEN {""} \cup TextContentErrors
                      ELSE {""}
    /\ log' = IF currentPage = 1
              THEN Shot(log \o <<"extractBidsFromCurrentPage">>, pageRef, debugMode)
              ELSE log \o <<"extractBidsFromCurrentPage">>
    /\ pc' = "sb_findNext"
    /\ UNCHANGED << linksSeen, quotesLink, searchButton, loadWait, site,
                    currentPage, hasMorePages, nextSeen, nextButton,
                    scrapedBids, err >>
    /\ UNCHANGED outsideScrape

\* The walk of the next-page chain.
FindNextButton ==
    /\ proc = "running" /\ pc = "sb_findNext"
    /\ \E d \in ListingNextDoms :
         /\ nextSeen' = d
         /\ nextButton' = WalkNext(d, 1)
    /\ pc' = "sb_next"
    /\ UNCHANGED << linksSeen, quotesLink, searchButton, loadWait, site,
                    currentPage, hasMorePages, bids, scrapedBids, err, log >>
    /\ UNCHANGED pageError
    /\ UNCHANGED outsideScrape

\* if (nextButton) { try { click, idle-network wait, currentPage++, settle
\* delay } catch { hasMorePages = false } } else { hasMorePages = false }
NextPage ==
    /\ proc = "running" /\ pc = "sb_next"
    /\ IF nextButton # NullControl
       THEN \E outcome \in {"idle", "timeout"} \cup ClickErrors :
              CASE outcome = "idle" ->
                     /\ log' = log \o <<"click:next", "waitForLoadState",
                                        "waitForTimeout">>
                     /\ loadWait' = "idle"
                     /\ currentPage' = currentPage + 1
                     /\ hasMorePages' = hasMorePages
                [] outcome = "timeout" ->
                     /\ log' = log \o <<"click:next", "waitForLoadState">>
                     /\ loadWait' = "timeout"
                     /\ currentPage' = currentPage
                     /\ hasMorePages' = FALSE
                [] OTHER ->
                     /\ log' = log \o <<"click:next">>
                     /\ loadWait' = "none"
                     /\ currentPage' = currentPage
                     /\ hasMorePages' = FALSE
       ELSE /\ hasMorePages' = FALSE
            /\ loadWait' = "none"
            /\ UNCHANGED << currentPage, log >>
    /\ nextSeen' = Unseen
    /\ nextButton' = NullControl
    /\ pc' = "sb_while"
    /\ UNCHANGED << linksSeen, quotesLink, searchButton, site, bids,
                    scrapedBids, err >>
    /\ UNCHANGED pageError
    /\ UNCHANGED outsideScrape

\* After the loop: the final snapshot and return bids.
ScrapeReturn ==
    /\ proc = "running" /\ pc = "sb_while"
    /\ ~LoopContinues(hasMorePages, currentPage)
    /\ scrapedBids' = bids
    /\ log' = Shot(log, pageRef, debugMode) \o <<"scrapeBids:return">>
    /\ pc' = (IF entry = "manual" THEN "manual_finally" ELSE "scheduled_cleanup")
    /\ UNCHANGED << scrapeLocals, err >>
    /\ UNCHANGED outsideScrape

\* catch (error) { takeDebugScreenshot('error-scraping-failed'); throw error }
ScrapeCatch ==
    /\ proc = "running" /\ pc = "sb_catch"
    /\ log' = Shot(log, pageRef, debugMode) \o <<"scrapeBids:throw">>
    /\ pc' = CallerCatch(entry)
    /\ UNCHANGED << scrapeLocals, scrapedBids, err >>
    /\ UNCHANGED outsideScrape

ScrapeNext ==
    \/ ScrapeGotoDashboard
    \/ FindQuotesLink
    \/ FollowQuotesLink
    \/ FindSearchButton
    \/ SubmitSearch
    \/ ExtractPage
    \/ FindNextButton
    \/ NextPage
    \/ ScrapeReturn
    \/ ScrapeCatch

ScrapeSpec == ScrapeInit /\ [][ScrapeNext]_vars

\* ------------------------------ extractBidsFromCurrentPage(), row by row

MaxClock == 2           \* instants of the clock, and of the due dates

\* The row elements a listing page holds.  A row is blank (no text),
\* unrelated (its title fails the relevance gate), faulty (a read of the
\* element raises) or a bid with its resolved due date.
Rows ==
    { [kind |-> k, due |-> NoDate] : k \in {"blank", "unrelated", "faulty"} }
    \cup { [kind |-> "bid", due |-> d] : d \in {NoDate} \cup (0..MaxClock) }

Pages == UNION { [1..n -> Rows] : n \in 0..MaxRows }

\* Mutant: an exception in a row ends the loop over the rows.
AfterRowFaultStop(i, n) == n + 1

\* catch (error) { warn; return null } in extractBidDataFromElement() and
\* catch (error) { warn } around its call: the loop goes on with the row
\* after the one that raised.
AfterRowFault(i, n) == i + 1

\* The state in which extractBidsFromCurrentPage() has found the row
\* elements of the page.
RowsInit ==
    /\ SessionReady
    /\ pc = "xp_rows"
    /\ ScrapeIdle
    /\ rowElements \in Pages
    /\ rowIndex = 1
    /\ pageBids = <<>>
    /\ clock = 0
    /\ fieldSeen = [title |-> Unseen, link |-> Unseen]
    /\ fieldTaken = [title |-> NoField, link |-> NoField]
    /\ bid = NullBid
    /\ StoreIdle
    /\ ServerIdle

\* What the row loop never writes.
outsideRows == << proc, entry, credentials, debugMode, session, loginLocals,
                  err, loginResult, scrapedBids, response, log, initLocals,
                  scrapeLocals, rowElements, fieldSeen, fieldTaken, bid,
                  storeLocals,
                    serverLocals >>

\* Time passes.
Tick ==
    /\ pc = "xp_rows" /\ clock < MaxClock
    /\ clock' = clock + 1
    /\ UNCHANGED << pc, rowIndex, pageBids >>
    /\ UNCHANGED outsideRows

\* One pass of the row loop: extractBidDataFromElement(bidElements[i]) and
\* the push of its record.
ExtractRow ==
    /\ pc = "xp_rows" /\ rowIndex <= Len(rowElements)
    /\ LET row == rowElements[rowIndex]
       IN  CASE row.kind = "faulty" ->
                  /\ rowIndex' = AfterRowFault(rowIndex, Len(rowElements))
                  /\ pageBids' = pageBids
             [] row.kind = "bid" /\ ~Expired(row.due, clock) ->
                  /\ rowIndex' = rowIndex + 1
                  /\ pageBids' = pageBids \o
                        << [row |-> rowIndex, dueDate |-> row.due, at |-> clock] >>
             [] OTHER ->
                  /\ rowIndex' = rowIndex + 1
                  /\ pageBids' = pageBids
    /\ UNCHANGED << pc, clock >>
    /\ UNCHANGED outsideRows

\* return bids
ExtractReturn ==
    /\ pc = "xp_rows" /\ rowIndex > Len(rowElements)
    /\ pc' = "xp_returned"
    /\ UNCHANGED << rowIndex, pageBids, clock >>
    /\ UNCHANGED outsideRows

RowsNext ==
    \/ Tick
    \/ ExtractRow
    \/ ExtractReturn

RowsSpec == RowsInit /\ [][RowsNext]_vars

\* ------------------------------- extractBidDataFromElement(), the chains

MaxFieldMatches == 2    \* title and link selectors that match in a row

\* The trimmed text of an element a title selector matches.
TitleTexts ==
    { "View", "RFQ 24-011", "RFQ 24-0117", "Bus Engine Overhaul Parts Bid" }

\* The href of an element a link selector matches.
LinkHrefs == { "/vendor/requisitions/view/24-0117" }

\* The rows: for each selector of the two chains, in list order, the text
\* (the href) of the first element it matches, "" if it matches none.
FieldDoms ==
    UNION { { [title |-> [i \in 1..Len(titleSelectors) |->
                            IF i \in tl[1] THEN f[i] ELSE ""],
               link |-> [i \in 1..Len(linkSelectors) |->
                            IF i \in tl[2] THEN g[i] ELSE ""]] :
                f \in [tl[1] -> TitleTexts], g \in [tl[2] -> LinkHrefs] } :
            tl \in { x \in (SUBSET (1..Len(titleSelectors)))
                              \X (SUBSET (1..Len(linkSelectors))) :
                       Cardinality(x[1]) + Cardinality(x[2]) <= MaxFieldMatches } }

\* The state in which extractBidDataFromElement() has read the row's text.
FieldsInit ==
    /\ SessionReady
    /\ pc = "xt_title"
    /\ ScrapeIdle
    /\ rowElements = <<>>
    /\ rowIndex = 0
    /\ pageBids = <<>>
    /\ clock = 0
    /\ fieldSeen \in FieldDoms
    /\ fieldTaken = [title |-> NoField, link |-> NoField]
    /\ bid = NullBid
    /\ StoreIdle
    /\ ServerIdle

\* What the two chains never write.
outsideFields == << proc, entry, credentials, debugMode, session, loginLocals,
                    err, loginResult, scrapedBids, response, log, initLocals,
                    scrapeLocals, rowElements, rowIndex, pageBids, clock,
                    fieldSeen, bid, storeLocals,
                    serverLocals >>

\* The walk of the title chain.
ExtractTitle ==
    /\ pc = "xt_title"
    /\ fieldTaken' = [fieldTaken EXCEPT
                        !.title = WalkChain(fieldSeen.title, 1, TitleMinLength)]
    /\ pc' = "xt_link"
    /\ UNCHANGED outsideFields

\* The walk of the link chain: if (href).
ExtractLink ==
    /\ pc = "xt_link"
    /\ fieldTaken' = [fieldTaken EXCEPT !.link = WalkChain(fieldSeen.link, 1, 0)]
    /\ pc' = "xt_dates"
    /\ UNCHANGED outsideFields

FieldsNext ==
    \/ ExtractTitle
    \/ ExtractLink

FieldsSpec == FieldsInit /\ [][FieldsNext]_vars

\* ------------------------ extractBidDataFromElement(), one row after another

MaxTextRows == 2        \* rows extracted one after the other

\* What a row's element holds for a chain of n selectors: value v under
\* selector i, nothing under the others (i = 0: nothing at all).
OneMatch(n, i, v) == [j \in 1..n |-> IF j = i THEN v ELSE ""]

\* The rows: table rows with a first cell and an anchor, and rows of text.
TextRows ==
    LET text(t) == [title |-> OneMatch(Len(titleSelectors), 0, ""),
                    link |-> OneMatch(Len(linkSelectors), 0, ""),
                    text |-> t]
        cell(c, h, t) == [title |-> OneMatch(Len(titleSelectors), 2, c),
                          link |-> OneMatch(Len(linkSelectors), 1, h),
                          text |-> t]
    IN  { text("RFP-2024-001 IT Services $75,000 due 02/15/2024 posted 01/15/2024"),
          text("RFQ 24-0117"),
          text("  "),
          text("Weekly cafeteria menu posted 01/15/2024"),
          text("Track Maintenance Contract 2027-03-01 $ 12.5 #a #b"),
          text("Vendor Notice archive 12/31/1850 renewed 01/15/2027"),
          text("Invitation for Bid Elevator Repair Services at Fern Rock "
               \o "Transportation Center due 04/01/2027"),
          cell("Bus Engine Overhaul Parts Bid", "/vendor/requisitions/view/24-0117",
               "Bus Engine Overhaul Parts Bid Req 24-0117 Requisition 24-0200 "
               \o "Qty: 12 each due 03/01/2027"),
          cell("Bus Engine Overhaul Parts Bid", "/vendor/requisitions/view/24-0200",
               "Bus Engine Overhaul Parts Bid posted 01/15/2024 due 02/15/2024"),
          cell("View", "/vendor/requisitions/view/24-0300",
               "View Solicitation 24-0300 posted 01/05/2024 due 01/20/2024") }

TextPages == UNION { [1..n -> TextRows] : n \in 1..MaxTextRows }

\* The day on which the extraction runs.
Today == DayNumber(2024, 2, 1)

\* The state in which extractBidDataFromElement() is called for the first
\* row.
TextInit ==
    /\ SessionReady
    /\ debugMode = FALSE
    /\ pc = "xd_title"
    /\ ScrapeIdle
    /\ rowElements \in TextPages
    /\ rowIndex = 1
    /\ pageBids = << >>
    /\ clock = Today
    /\ fieldSeen = [title |-> Unseen, link |-> Unseen]
    /\ fieldTaken = [title |-> NoField, link |-> NoField]
    /\ bid = NullBid
    /\ StoreIdle
    /\ ServerIdle

\* What the extraction of a row never writes.
outsideText == << proc, entry, credentials, debugMode, session, loginLocals,
                  err, loginResult, scrapedBids, response, log, initLocals,
                  scrapeLocals, rowElements, clock, fieldSeen, fieldTaken,
                  storeLocals,
                    serverLocals >>

\* The blank-row test, the title chain and the fallback title.
TitleStep ==
    /\ pc = "xd_title" /\ rowIndex <= Len(rowElements)
    /\ bid' = ResolveTitle(rowElements[rowIndex])
    /\ pc' = IF bid' = NullBid THEN "xd_return" ELSE "xd_gate"
    /\ UNCHANGED << rowIndex, pageBids >>
    /\ UNCHANGED outsideText

\* The relevance gate, then the link chain.
GateStep ==
    /\ pc = "xd_gate"
    /\ bid' = (IF RelevanceGate(bid) = NullBid THEN NullBid
               ELSE WithLink(bid, rowElements[rowIndex]))
    /\ pc' = IF bid' = NullBid THEN "xd_return" ELSE "xd_dates"
    /\ UNCHANGED << rowIndex, pageBids >>
    /\ UNCHANGED outsideText

\* The dates, then the amount, the quantity, the external id and the
\* description.
FieldsStep ==
    /\ pc = "xd_dates"
    /\ bid' = WithLabels(WithDates(bid, rowElements[rowIndex].text),
                         rowElements[rowIndex].text)
    /\ pc' = "xd_expiry"
    /\ UNCHANGED << rowIndex, pageBids >>
    /\ UNCHANGED outsideText

\* The expiry filter and the hash.
ExpiryStep ==
    /\ pc = "xd_expiry"
    /\ bid' = Finish(bid, clock)
    /\ pc' = "xd_return"
    /\ UNCHANGED << rowIndex, pageBids >>
    /\ UNCHANGED outsideText

\* return bid / return null, and in the caller if (bid) bids.push(bid).
ReturnStep ==
    /\ pc = "xd_return"
    /\ pageBids' = IF bid = NullBid THEN pageBids ELSE pageBids \o << bid >>
    /\ rowIndex' = rowIndex + 1
    /\ bid' = NullBid
    /\ pc' = "xd_title"
    /\ UNCHANGED outsideText

TextNext ==
    \/ TitleStep
    \/ GateStep
    \/ FieldsStep
    \/ ExpiryStep
    \/ ReturnStep

TextSpec == TextInit /\ [][TextNext]_vars

\* ------------------------------------ parseDate() on the dates of row texts

\* Ways in which a listing writes 15 February 2024.
DateStrings ==
    { "02/15/2024", "2024-02-15", "Feb 15, 2024", "FEB 15, 2024",
      "feb 15, 2024", "15 Feb 2024", "15 FEB 2024" }

\* Rows of text that announce a bid with one date.
DateRows ==
    { [title |-> OneMatch(Len(titleSelectors), 0, ""),
       link |-> OneMatch(Len(linkSelectors), 0, ""),
       text |-> "Bid notice " \o d] : d \in DateStrings }

\* The state in which extractBidDataFromElement() is called for the first
\* of these rows.
DateInit ==
    /\ SessionReady
    /\ debugMode = FALSE
    /\ pc = "xd_title"
    /\ ScrapeIdle
    /\ rowElements \in UNION { [1..n -> DateRows] : n \in 1..MaxTextRows }
    /\ rowIndex = 1
    /\ pageBids = << >>
    /\ clock = Today
    /\ fieldSeen = [title |-> Unseen, link |-> Unseen]
    /\ fieldTaken = [title |-> NoField, link |-> NoField]
    /\ bid = NullBid
    /\ StoreIdle
    /\ ServerIdle

DateSpec == DateInit /\ [][TextNext]_vars

\* ------------------------------- scrapeBids() over a listing of row elements

MaxListingPages == 2    \* pages of a listing

\* Row r of page p of a listing: a table row whose first cell holds the
\* requisition's title, with an anchor to its page, a posted date and a
\* due date; the due date is before or after Today.
ListingRow(p, r, expired) ==
    LET number == "24-0" \o SubSeq("123456789", p, p) \o "0"
                  \o SubSeq("123456789", r, r)
        title == "Requisition " \o number \o " Brake Parts"
    IN  [title |-> OneMatch(Len(titleSelectors), 2, title),
         link |-> OneMatch(Len(linkSelectors), 1,
                           "/vendor/requisitions/view/" \o number),
         text |-> title \o " posted 01/05/2024 due "
                  \o (IF expired THEN "01/20/2024" ELSE "03/01/2024")]

\* The row elements of page p: three rows, of which those in late are past
\* their due date.
ListingRows(p, late) == [r \in 1..3 |-> ListingRow(p, r, r \in late)]

\* The pagination bar of a page: no control, or one control under the first
\* selector of the chain.
NextBar(c) ==
    [i \in 1..Len(nextButtonSelectors) |-> IF i = c.sel THEN c ELSE NullControl]

\* A page of a listing: its row elements and its pagination bar.  At most
\* one row of a page is past its due date; the bar of a page that has a
\* successor holds a link to it, or a link whose href is '#'.  The last
\* page has no next control; the only page of a one-page listing may have
\* one all the same, a link that serves the page again.
ListingPages(p, last) ==
    [rows : { ListingRows(p, late) : late \in {{}, {1}, {3}} },
     next : IF last /\ p > 1 THEN { NextBar(NullControl) }
            ELSE { NextBar([sel |-> 1, visible |-> TRUE, href |-> h]) :
                     h \in {"#", "/vendor/requisitions/list/?page=2"} }
                 \cup (IF last THEN { NextBar(NullControl) } ELSE {})]

\* The listings: 1..MaxListingPages pages.
Listings ==
    UNION { { s \in [1..n -> UNION { ListingPages(p, b) : p \in 1..n,
                                                     b \in BOOLEAN }] :
                \A p \in 1..n : s[p] \in ListingPages(p, p = n) } :
            n \in 1..MaxListingPages }

\* What extractBidsFromCurrentPage() returns for the row elements rows at
\* time now: the records of the rows that gave one, in row order.
RECURSIVE RowRecords(_, _)
RowRecords(rows, now) ==
    IF rows = << >> THEN << >>
    ELSE LET add(b, rest) == IF b = NullBid THEN rest ELSE << b >> \o rest
         IN  add(ExtractBidData(Head(rows), now), RowRecords(Tail(rows), now))

\* The state in which scrapeBids() enters its pagination loop, the browser
\* showing the first page of a listing.
ListingInit ==
    /\ SessionReady
    /\ debugMode = FALSE
    /\ pc = "sb_while"
    /\ linksSeen = Unseen
    /\ quotesLink = NullElement
    /\ searchButton = NullElement
    /\ loadWait = "none"
    /\ site \in Listings
    /\ currentPage = 1
    /\ hasMorePages = TRUE
    /\ bids = << >>
    /\ nextSeen = Unseen
    /\ nextButton = NullControl
    /\ pageError = ""
    /\ rowElements = << >>
    /\ rowIndex = 0
    /\ pageBids = << >>
    /\ clock = Today
    /\ fieldSeen = [title |-> Unseen, link |-> Unseen]
    /\ fieldTaken = [title |-> NoField, link |-> NoField]
    /\ bid = NullBid
    /\ StoreIdle
    /\ ServerIdle

\* One pass of the loop body up to the next-page lookup, on a page that has
\* row elements.
ExtractListingPage ==
    /\ proc = "running" /\ pc = "sb_while"
    /\ LoopContinues(hasMorePages, currentPage)
    /\ bids' = Accumulate(bids,
                  RowRecords(site[PageIndex(site, currentPage)].rows, clock))
    /\ pageError' = ""
    /\ log' = IF currentPage = 1
              THEN Shot(log \o <<"extractBidsFromCurrentPage">>, pageRef, debugMode)
              ELSE log \o <<"extractBidsFromCurrentPage">>
    /\ pc' = "sb_findNext"
    /\ UNCHANGED << linksSeen, quotesLink, searchButton, loadWait, site,
                    currentPage, hasMorePages, nextSeen, nextButton,
                    scrapedBids, err >>
    /\ UNCHANGED outsideScrape

\* The walk of the next-page chain over the bar of the page shown.
FindListingNext ==
    /\ proc = "running" /\ pc = "sb_findNext"
    /\ nextSeen' = site[PageIndex(site, currentPage)].next
    /\ nextButton' = WalkNext(nextSeen', 1)
    /\ pc' = "sb_next"
    /\ UNCHANGED << linksSeen, quotesLink, searchButton, loadWait, site,
                    currentPage, hasMorePages, bids, pageError, scrapedBids,
                    err, log >>
    /\ UNCHANGED outsideScrape

ListingNext ==
    \/ ExtractListingPage
    \/ FindListingNext
    \/ NextPage
    \/ ScrapeReturn

ListingSpec == ListingInit /\ [][ListingNext]_vars

\* ------------------------------------- fetchSeptaBids: the upsert loop

MaxScraped == 2         \* records one fetch run scraped
MaxStoreClock == 3      \* milliseconds on the store's clock

\* A record scrapeBids() returned for a requisition, as the page described
\* it at the time (the description changes when the page does).
ScrapedBid(title, note) ==
    [NewBid EXCEPT !.title = title,
                   !.link = "https://epsadmin.septa.org/vendor/requisitions/list",
                   !.description = title \o note,
                   !.titleHash = generateHash(title)]

ScrapedBids ==
    { ScrapedBid(title, note) :
        title \in { "Requisition 24-0101 Brake Parts",
                    "Requisition 24-0102 Wheel Bearings" },
        note \in { " due 03/01/2024", " due 03/15/2024" } }

\* The lists a fetch run hands to the upsert loop.
ScrapedLists == UNION { [1..n -> ScrapedBids] : n \in 1..MaxScraped }

\* No record: what find() gives when no element satisfies the test.
NoRecord == [id |-> 0 - 1, data |-> NullBid]

\* mockDB.findBidByHash(portal, titleHash): the first record of the file
\* with that portal and that hash, or null.
FindBidByHash(data, portal, titleHash) ==
    LET found == { i \in 1..Len(data) : /\ data[i].data.portal = portal
                                         /\ data[i].data.titleHash = titleHash }
    IN  IF found = {} THEN NoRecord
        ELSE data[CHOOSE i \in found : \A j \in found : i <= j]

\* existingBid.link !== bidData.link || existingBid.description !==
\* bidData.description || the documents differ
HasChanges(existingBid, bidData) ==
    \/ existingBid.data.link # bidData.link
    \/ existingBid.data.description # bidData.description
    \/ existingBid.data.documents # bidData.documents

\* mockDB.saveBid(bidData) at millisecond now: bidData._id =
\* Date.now().toString(), then data.push(bidData).  (The clock counts the
\* milliseconds from the start of the first run.)
SaveBid(data, bidData, now) == Append(data, [id |-> now, data |-> bidData])

\* mockDB.updateBid(id, updateData): index = data.findIndex(bid => bid._id
\* === id); data[index] = { ...data[index], ...updateData }.  Every field
\* of the scraped record, portal and titleHash included, replaces the
\* stored one; _id stays.
UpdateBid(data, id, updateData) ==
    LET found == { i \in 1..Len(data) : data[i].id = id }
    IN  IF found = {} THEN data
        ELSE [data EXCEPT ![CHOOSE i \in found : \A j \in found : i <= j]
                              = [id |-> id, data |-> updateData]]

\* The state in which the first fetch is requested: the bid store is empty,
\* no browser is open.
StoreInit ==
    /\ proc = "running"
    /\ entry = "manual"
    /\ pc = "up_idle"
    /\ credentials = DecryptedPair
    /\ debugMode = FALSE
    /\ browserRef = FALSE
    /\ pageRef = FALSE
    /\ browserOpen = FALSE
    /\ pageOpen = FALSE
    /\ domSeen = NoDom
    /\ usernameField = NullElement
    /\ passwordField = NullElement
    /\ submitButton = NullElement
    /\ navWait = "none"
    /\ currentUrl = ""
    /\ markers = {}
    /\ err = ""
    /\ loginResult = "none"
    /\ scrapedBids = <<>>
    /\ response = NoResponse
    /\ log = <<>>
    /\ launchedBy = "pending"
    /\ pageMade = "pending"
    /\ warnings = {}
    /\ ScrapeIdle
    /\ ExtractIdle
    /\ StoreIdle
    /\ ServerIdle

\* What the upsert loop never writes.
outsideStore == << proc, entry, credentials, debugMode, session, loginLocals,
                   err, loginResult, log, initLocals, scrapeLocals,
                   rowElements, rowIndex, pageBids, fieldSeen, fieldTaken,
                   bid, serverLocals >>

\* A fetch run, up to the upsert loop: the scraper has returned its list
\* and has been cleaned up.  A run takes seconds; it starts after the
\* response of the run before it.
StartFetch ==
    /\ pc = "up_idle"
    /\ clock < MaxStoreClock
    /\ clock' = clock + 1
    /\ scrapedBids' \in ScrapedLists
    /\ bidIndex' = 1
    /\ response' = NoResponse
    /\ pc' = "up_loop"
    /\ UNCHANGED store
    /\ UNCHANGED outsideStore

\* One pass of the loop over scrapedBids: the record with the bid's portal
\* and hash is looked up; it is updated when the link, the description or
\* the documents differ, and left alone when they do not; without such a
\* record the bid is inserted.  A write that fails is caught and counted
\* as skipped.  The pass takes less than a millisecond, or more.
UpsertBid ==
    /\ pc = "up_loop" /\ bidIndex <= Len(scrapedBids)
    /\ \E written \in BOOLEAN :
         LET bidData == scrapedBids[bidIndex]
             existingBid == FindBidByHash(store, bidData.portal,
                                          bidData.titleHash)
         IN  store' = IF ~written THEN store
                      ELSE IF existingBid = NoRecord
                      THEN SaveBid(store, bidData, clock)
                      ELSE IF HasChanges(existingBid, bidData)
                      THEN UpdateBid(store, existingBid.id, bidData)
                      ELSE store
    /\ clock' \in IF clock < MaxStoreClock THEN {clock, clock + 1} ELSE {clock}
    /\ bidIndex' = bidIndex + 1
    /\ UNCHANGED << scrapedBids, response, pc >>
    /\ UNCHANGED outsideStore

\* After the loop: the summary is sent.
FetchRespond ==
    /\ pc = "up_loop" /\ bidIndex > Len(scrapedBids)
    /\ response' = [NoResponse EXCEPT !.status = 200,
                                      !.total = Len(scrapedBids)]
    /\ pc' = "up_idle"
    /\ UNCHANGED << scrapedBids, clock, store, bidIndex >>
    /\ UNCHANGED outsideStore

StoreNext ==
    \/ StartFetch
    \/ UpsertBid
    \/ FetchRespond

StoreSpec == StoreInit /\ [][StoreNext]_vars

\* ====================================== connectDB() and startServer()
\* utils/encryption.js:92-119 (db.js) and index.js:146-177.

\* The largest number of retries connectDB() is called with (startServer()
\* calls it with the default, five), and the constants of the delay.
MaxRetries == 6
BackoffBase == 1000
BackoffCap == 10000

\* No scraper is in use: the constructor has not run.
NoScraper ==
    /\ proc = "running"
    /\ entry = "idle"
    /\ credentials = Null
    /\ debugMode = FALSE
    /\ browserRef = FALSE
    /\ pageRef = FALSE
    /\ browserOpen = FALSE
    /\ pageOpen = FALSE
    /\ domSeen = NoDom
    /\ usernameField = NullElement
    /\ passwordField = NullElement
    /\ submitButton = NullElement
    /\ navWait = "none"
    /\ currentUrl = ""
    /\ markers = {}
    /\ err = ""
    /\ loginResult = "none"
    /\ scrapedBids = <<>>
    /\ response = NoResponse
    /\ log = <<>>
    /\ launchedBy = "pending"
    /\ pageMade = "pending"
    /\ warnings = {}
    /\ ScrapeIdle
    /\ ExtractIdle

\* What connectDB() and startServer() never write.
outsideServer == << proc, entry, credentials, debugMode, session, loginLocals,
                    err, loginResult, scrapedBids, response, log, initLocals,
                    scrapeLocals, extractLocals, storeLocals >>

\* Mutant: the delay without its cap.
RetryDelayUncapped(attempt) == BackoffBase * 2 ^ (attempt - 1)

\* The delay before the attempt after `attempt`:
\* Math.min(1000 * Math.pow(2, attempt - 1), 10000).
RetryDelay(attempt) ==
    IF BackoffBase * 2 ^ (attempt - 1) < BackoffCap
    THEN BackoffBase * 2 ^ (attempt - 1)
    ELSE BackoffCap

\* The loop variable of connectDB(): the number of the attempt under way,
\* or of the last one made.
Attempt == Len(db.outcomes)

ConnectInit ==
    /\ NoScraper
    /\ StoreIdle
    /\ pc = "cd_for"
    /\ \E n \in 0..MaxRetries : db = [NoConnection EXCEPT !.retries = n]
    /\ runs = <<>>
    /\ cred = NoCredential
    /\ test = NoTest

\* One pass of the loop with attempt <= retries: mongoose.connect()
\* resolves and connectDB() returns true, or it rejects; after the
\* rejection of the last attempt connectDB() returns false, after another
\* one it goes on to wait.
ConnectAttempt ==
    /\ pc = "cd_for" /\ Attempt < db.retries
    /\ \E connected \in BOOLEAN :
         /\ db' = [db EXCEPT !.outcomes = Append(@, connected),
                             !.result = IF connected THEN "true"
                                        ELSE IF Attempt + 1 = db.retries
                                        THEN "false" ELSE @]
         /\ pc' = IF connected \/ Attempt + 1 = db.retries
                  THEN "ss_import" ELSE "cd_wait"
    /\ UNCHANGED << runs, cred, test >>
    /\ UNCHANGED outsideServer

\* The wait before the next attempt.
ConnectWait ==
    /\ pc = "cd_wait"
    /\ db' = [db EXCEPT !.waited = Append(@, RetryDelay(Attempt))]
    /\ pc' = "cd_for"
    /\ UNCHANGED << runs, cred, test >>
    /\ UNCHANGED outsideServer

\* The loop ends with attempt > retries: the return after it.
ConnectGiveUp ==
    /\ pc = "cd_for" /\ Attempt >= db.retries
    /\ db' = [db EXCEPT !.result = "false"]
    /\ pc' = "ss_import"
    /\ UNCHANGED << runs, cred, test >>
    /\ UNCHANGED outsideServer

\* startServer() after connectDB(): the import of playwright, whose
\* failure is caught and logged.
ImportPlaywright ==
    /\ pc = "ss_import"
    /\ \E found \in {"available", "missing"} :
         db' = [db EXCEPT !.playwright = found]
    /\ pc' = "ss_schedule"
    /\ UNCHANGED << runs, cred, test >>
    /\ UNCHANGED outsideServer

\* cron.schedule('*/15 * * * *', scheduledBidFetch).
ScheduleFetch ==
    /\ pc = "ss_schedule"
    /\ db' = [db EXCEPT !.scheduled = TRUE]
    /\ pc' = "ss_listen"
    /\ UNCHANGED << runs, cred, test >>
    /\ UNCHANGED outsideServer

\* app.listen(PORT).
Listen ==
    /\ pc = "ss_listen"
    /\ db' = [db EXCEPT !.listening = TRUE]
    /\ pc' = "ss_up"
    /\ UNCHANGED << runs, cred, test >>
    /\ UNCHANGED outsideServer

ConnectNext ==
    \/ ConnectAttempt
    \/ ConnectWait
    \/ ConnectGiveUp
    \/ ImportPlaywright
    \/ ScheduleFetch
    \/ Listen

ConnectSpec == ConnectInit /\ [][ConnectNext]_vars

\* ============================ saveSeptaCredentials / testSeptaCredentials
\* controllers/credentialController.js:55-103 and 129-221, with
\* utils/mockDB.js:147-183.

MaxCredClock == 3

\* The pairs a user saves.
Logins == { "vendor1 / first password", "vendor1 / second password" }

\* The _id MongoDB gave the SEPTA document when it was inserted.
ObjectId == 0 - 2

\* The server listening after connectDB()'s first attempt succeeded, and
\* after its five attempts failed.
ConnectedServer ==
    [NoConnection EXCEPT !.retries = 5, !.outcomes = << TRUE >>,
                         !.result = "true", !.playwright = "available",
                         !.scheduled = TRUE, !.listening = TRUE]
DegradedServer ==
    [ConnectedServer EXCEPT !.outcomes = << FALSE, FALSE, FALSE, FALSE, FALSE >>,
                            !.waited = << 1000, 2000, 4000, 8000 >>,
                            !.result = "false"]
ServerUp == { ConnectedServer, DegradedServer }

\* useMockDB(): mongoose.connection.readyState !== 1.
UseMockDB == db.result # "true"

CredInit ==
    /\ NoScraper
    /\ store = <<>>
    /\ bidIndex = 0
    /\ pc = "cr_idle"
    /\ db \in ServerUp
    /\ runs = <<>>
    /\ cred = NoCredential
    /\ test = NoTest

\* What the credential handlers never write.
outsideCred == << proc, entry, pc, credentials, debugMode, session,
                  loginLocals, err, loginResult, scrapedBids, response, log,
                  initLocals, scrapeLocals, rowElements, rowIndex, pageBids,
                  fieldSeen, fieldTaken, bid, storeLocals, db, runs >>

\* mockDB.saveCredential(credData): the credential of the portal is
\* removed and the new one pushed with _id = Date.now().toString().
SaveCredential(credData, now) == [credData EXCEPT !.id = now]

\* Credential.findOneAndUpdate({ portal }, credData, { upsert: true }):
\* the document of the portal gets the new fields and keeps its _id; it is
\* inserted when there is none.
FindOneAndUpdate(existing, credData) ==
    [credData EXCEPT !.id = IF existing = NoCredential THEN ObjectId
                            ELSE existing.id]

\* mockDB.updateCredential(id, updateData) and
\* Credential.findByIdAndUpdate(id, updateData): the credential with that
\* _id gets the fields; nothing is written when there is none.
UpdateCredential(existing, id, ok) ==
    IF existing # NoCredential /\ existing.id = id
    THEN [existing EXCEPT !.lastTestOk = ok]
    ELSE existing

\* saveSeptaCredentials with a username and a password: the pair is stored
\* with lastTestOk: false.
SaveSeptaCredentials ==
    /\ clock < MaxCredClock
    /\ \E l \in Logins :
         LET credentialData == [id |-> 0 - 1, login |-> l,
                                lastTestOk |-> FALSE]
         IN  cred' = IF UseMockDB THEN SaveCredential(credentialData, clock)
                     ELSE FindOneAndUpdate(cred, credentialData)
    /\ clock' \in {clock, clock + 1}
    /\ UNCHANGED test
    /\ UNCHANGED outsideCred

\* testSeptaCredentials, up to the call of testConnection(): the stored
\* credential is read and decrypted.
TestRead ==
    /\ test.phase = "idle" /\ cred # NoCredential
    /\ test' = [test EXCEPT !.phase = "testing", !.id = cred.id,
                            !.login = cred.login]
    /\ UNCHANGED << cred, clock >>
    /\ UNCHANGED outsideCred

\* testConnection() with the pair that was read: a browser session of
\* seconds that ends with true or false.
TestConnection ==
    /\ test.phase = "testing" /\ clock < MaxCredClock
    /\ \E testResult \in BOOLEAN :
         test' = [test EXCEPT !.phase = "update", !.testResult = testResult,
                              !.passed = IF testResult THEN @ \cup {test.login}
                                         ELSE @]
    /\ clock' = clock + 1
    /\ UNCHANGED cred
    /\ UNCHANGED outsideCred

\* testSeptaCredentials after the test: lastTestOk is written to the
\* credential with the _id that was read, and the result is sent.
TestUpdate ==
    /\ test.phase = "update"
    /\ cred' = UpdateCredential(cred, test.id, test.testResult)
    /\ test' = [test EXCEPT !.phase = "idle"]
    /\ UNCHANGED clock
    /\ UNCHANGED outsideCred

CredNext ==
    \/ SaveSeptaCredentials
    \/ TestRead
    \/ TestConnection
    \/ TestUpdate

CredSpec == CredInit /\ [][CredNext]_vars

\* ================================================ overlapping fetch runs
\* The upsert loops of fetchSeptaBids
\* (controllers/credentialController.js:778-824) and of scheduledBidFetch
\* (index.js:106-137) on one store.

\* The lists of two runs that overlap: a listing holds a requisition once.
OverlapLists ==
    { l \in ScrapedLists :
        \A i \in 1..Len(l), j \in 1..Len(l) : l[i].title = l[j].title => i = j }

\* A run at the start of its upsert loop.
NewRun(kind, scraped) ==
    [kind |-> kind, bids |-> scraped, index |-> 1, phase |-> "find",
     existing |-> NoRecord, inserted |-> 0, updated |-> 0, skipped |-> 0]

\* The next pass of run r, or the end of its loop.
NextPass(run) ==
    [run EXCEPT !.index = @ + 1, !.existing = NoRecord,
                !.phase = IF run.index + 1 > Len(run.bids) THEN "done"
                          ELSE "find"]

\* The run works on the file-backed store: fetchSeptaBids asks useMockDB()
\* before each operation, scheduledBidFetch always uses the Bid model.
OnMockDB(run) == run.kind = "manual" /\ UseMockDB

\* Bid.create(bidData): the unique index on (portal, titleHash)
\* (routes/bidRoutes.js:76) rejects a second document with the key; the
\* document gets a new ObjectId.
BidCreateRejected(data, bidData) ==
    FindBidByHash(data, bidData.portal, bidData.titleHash) # NoRecord

BidCreate(data, bidData) ==
    Append(data, [id |-> 0 - (Len(data) + 2), data |-> bidData])

OverlapInit ==
    /\ NoScraper
    /\ store = <<>>
    /\ bidIndex = 0
    /\ pc = "ov_loops"
    /\ db \in ServerUp
    /\ \E first \in OverlapLists, second \in OverlapLists,
          kind \in {"manual", "scheduled"} :
         runs = << NewRun("manual", first), NewRun(kind, second) >>
    /\ cred = NoCredential
    /\ test = NoTest

\* What the overlapping loops never write.
outsideOverlap == << proc, entry, pc, credentials, debugMode, session,
                     loginLocals, err, loginResult, scrapedBids, response,
                     log, initLocals, scrapeLocals, rowElements, rowIndex,
                     pageBids, fieldSeen, fieldTaken, bid, bidIndex, db,
                     cred, test >>

\* The run is inside its loop.
InLoop(run) == run.phase = "write" \/ (run.phase = "find" /\ run.index > 1)

\* The lookup of a pass of run r.  Bid.findOne() without a connection
\* rejects: the pass is caught and counted as skipped.  The functions of
\* the file-backed store read and write the file synchronously, and the
\* awaits on them resume before any other request is served: a loop on
\* that store runs from its first lookup to its last write with no step of
\* another loop in between.  The operations of the Bid model are requests
\* to the database server, and those of two runs interleave.
RunFind(r) ==
    /\ runs[r].phase = "find"
    /\ OnMockDB(runs[r]) =>
         \A q \in 1..Len(runs) :
           (q # r /\ OnMockDB(runs[q])) => ~InLoop(runs[q])
    /\ LET run == runs[r]
           bidData == run.bids[run.index]
       IN  runs' = [runs EXCEPT ![r] =
                      IF run.kind = "scheduled" /\ UseMockDB
                      THEN NextPass([run EXCEPT !.skipped = @ + 1])
                      ELSE [run EXCEPT !.phase = "write",
                                       !.existing =
                                         FindBidByHash(store, bidData.portal,
                                                       bidData.titleHash)]]
    /\ UNCHANGED << store, clock >>
    /\ UNCHANGED outsideOverlap

\* The write of a pass of run r: an update when the record found differs,
\* nothing when it does not, an insert when none was found.  A write that
\* fails is caught and counted as skipped.
RunWrite(r) ==
    /\ runs[r].phase = "write"
    /\ \E written \in BOOLEAN :
         LET run == runs[r]
             bidData == run.bids[run.index]
             rejected == \/ ~written
                         \/ /\ run.existing = NoRecord
                            /\ ~OnMockDB(run)
                            /\ BidCreateRejected(store, bidData)
         IN  /\ store' =
                  IF rejected THEN store
                  ELSE IF run.existing = NoRecord
                  THEN IF OnMockDB(run) THEN SaveBid(store, bidData, clock)
                       ELSE BidCreate(store, bidData)
                  ELSE IF HasChanges(run.existing, bidData)
                  THEN UpdateBid(store, run.existing.id, bidData)
                  ELSE store
             /\ runs' = [runs EXCEPT ![r] =
                  NextPass(IF rejected THEN [run EXCEPT !.skipped = @ + 1]
                           ELSE IF run.existing = NoRecord
                           THEN [run EXCEPT !.inserted = @ + 1]
                           ELSE IF HasChanges(run.existing, bidData)
                           THEN [run EXCEPT !.updated = @ + 1]
                           ELSE [run EXCEPT !.skipped = @ + 1])]
    /\ clock' \in IF clock < MaxStoreClock THEN {clock, clock + 1} ELSE {clock}
    /\ UNCHANGED outsideOverlap

OverlapNext ==
    \E r \in 1..2 : RunFind(r) \/ RunWrite(r)

OverlapSpec == OverlapInit /\ [][OverlapNext]_vars

\* ================================================================ claims

Has(e) == \E i \in 1..Len(log) : log[i] = e

\* Every occurrence of b in the log has an a before it.
Before(a, b) ==
    \A i \in 1..Len(log) : log[i] = b => \E j \in 1..(i - 1) : log[j] = a

\* C1: in every entry point, once initialize() has been called (and has
\* handed the session to login()), cleanup() is executed before the
\* invocation ends, on each exit path: successful scrape, login failure,
\* scrapeBids failure.
C1_CleanupOnEveryExit ==
    (pc = "done" /\ Has("login")) => (Has("cleanup") /\ Before("login", "cleanup"))

\* C2: when the process is terminated by SIGTERM or SIGINT while an
\* invocation holds an open browser, that invocation's cleanup() has run
\* before the process exits.
C2_CleanupBeforeExit ==
    (proc = "exited" /\ browserRef /\ browserOpen) => Has("cleanup")

\* C3: scrapeBids() is never started unless login() returned success earlier
\* in the invocation; a login failure ends the invocation with no record
\* scraped.
C3_ScrapeOnlyAfterLogin ==
    /\ Before("login:return true", "scrapeBids")
    /\ loginResult # "true" => (~Has("scrapeBids") /\ scrapedBids = <<>>)
    /\ (loginResult = "threw" /\ pc = "done") => response.total = 0

C3_Witness ==
    pc = "done" /\ loginResult = "true" /\ Has("scrapeBids") /\ Len(scrapedBids) > 0

\* C4: login() with null credentials raises without any page navigation,
\* form fill or click, and never returns success.
C4_NullCredentialsFailFast ==
    (credentials = Null /\ Has("login")) =>
        /\ loginResult = "threw"
        /\ err = "SEPTA credentials are required"
        /\ ~Has("page.goto")
        /\ ~Has("fill:username") /\ ~Has("fill:password")
        /\ ~Has("click")
        /\ ~Has("login:return true")

C4_Witness ==
    credentials = Null /\ Has("login:throw") /\ pc = "done"

\* C5: login() fills the credentials only after both fields were located,
\* clicks the submit control only after both fields were filled, and
\* declares success only after the click.
C5_LoginOrder ==
    /\ Before("page.goto", "found:username") /\ Before("page.goto", "found:password")
    /\ Before("found:username", "fill:username")
    /\ Before("found:password", "fill:username")
    /\ Before("fill:username", "fill:password")
    /\ Before("fill:username", "click") /\ Before("fill:password", "click")
    /\ Before("click", "verify")
    /\ Before("verify", "login:return true")

C5_Witness == Has("login:return true")

\* The element of the first selector of a chain that matches a visible
\* element, or none.
FirstVisibleElement(dom) ==
    IF \E i \in 1..Len(dom) : dom[i] = "visible"
    THEN [sel |-> CHOOSE i \in 1..Len(dom) :
                    /\ dom[i] = "visible"
                    /\ \A j \in 1..(i - 1) : dom[j] # "visible",
          visible |-> TRUE]
    ELSE NullElement

\* C6: the username field and the password field login() fills are each the
\* element of the first selector of its list that matches a visible element.
C6_FieldsAreFirstVisible ==
    pc \in {"fillUser", "fillPass"} =>
        /\ usernameField = FirstVisibleElement(domSeen.user)
        /\ passwordField = FirstVisibleElement(domSeen.pass)

\* C7: when no password selector matches on the login page, the failure the
\* fetch handler reports carries the authentication-failure classification.
C7_NoPasswordFieldIsAuthFailure ==
    (entry = "manual" /\ pc = "done" /\ domSeen.pass # Unseen
        /\ Matches(domSeen.pass) = {}) =>
        /\ response.status = 500
        /\ response.error = "Invalid credentials or authentication failed"

\* The success signals as the claims state them: the URLs of the vendor area
\* that are not the login page, or any marker.
AuthenticatedUrls ==
    { "https://epsadmin.septa.org/vendor/",
      "https://epsadmin.septa.org/vendor/dashboard" }

SuccessSignal(url, marks) == url \in AuthenticatedUrls \/ marks # {}

C10_SnapshotOnEveryFailure ==
    \A i \in 1..Len(log) :
        log[i] = "login:throw" => \E j \in 1..(i - 1) : log[j] = "takeDebugScreenshot"

\* C10 amended: on every failure path after the credential check, the
\* failure leaves login() right after a takeDebugScreenshot call (a capture
\* in debug mode); with missing credentials login() raises without one.
C10_SnapshotOnFailureInTry ==
    \A i \in 1..Len(log) :
        log[i] = "login:throw" =>
            IF credentials = Null
            THEN ~Has("takeDebugScreenshot")
            ELSE /\ i > 2
                 /\ IF debugMode
                    THEN log[i - 1] = "page.screenshot" /\ log[i - 2] = "takeDebugScreenshot"
                    ELSE log[i - 1] = "takeDebugScreenshot"

C10_Witness ==
    Has("login:throw") /\ credentials # Null /\ debugMode /\ Has("page.goto")
        /\ ~Has("found:username") /\ ~Has("found:password") /\ domSeen = NoDom

\* C11: initialize() raises if and only if no browser could be launched
\* (the system browser included) or the page could not be created, and an
\* invocation whose initialize() raised navigates nowhere; a configuration
\* step that failed (user agent, extra headers, viewport, request
\* interception, screenshot directory) never makes initialize() raise: with
\* a browser and a page, initialize() returns whatever the warnings are.
C11_InitializeRaisesIffNoSession ==
    /\ Has("initialize:throw") <=> (launchedBy = "failed" \/ pageMade = "failed")
    /\ Has("initialize:throw") => ~Has("page.goto") /\ ~Has("initialize:return")
    /\ (pageMade = "made" /\ pc \notin { "init_userAgent", "init_extraHeaders",
            "init_viewport", "init_route", "init_mkdir", "init_return" })
          => Has("initialize:return")

\* A run on the system browser in which the user agent, the extra headers,
\* the viewport and the interception all failed, and which went on to the
\* login page.
C11_Witness ==
    /\ launchedBy = "system"
    /\ {"setUserAgent", "setExtraHTTPHeaders", "setViewportSize", "route", "mkdir"}
          \subseteq warnings
    /\ Has("initialize:return") /\ Has("page.goto")

\* The number of times a call occurs in the log.
Count(e) == Cardinality({i \in 1..Len(log) : log[i] = e})

\* C12: in scrapeBids(), whenever no selector of the view-listings chain
\* matches a visible element, the engine navigates directly to the
\* listing-search URL (and to the listing-list URL only after that
\* navigation); it never clicks a non-visible link instead.
C12_FallbackWhenNoVisibleLink ==
    (/\ linksSeen # Unseen
     /\ pc # "sb_quotesIf"
     /\ \A i \in 1..Len(linksSeen) : linksSeen[i] # "visible")
    => /\ ~Has("click:quotes")
       /\ Has("page.goto:search")
       /\ Before("page.goto:search", "page.goto:list")

\* C13: in one run of scrapeBids() there are at most 50 page extractions
\* and at most 50 next-page clicks, and after the 50th click the loop body
\* is not entered again, whatever the listing keeps offering.
C13_AtMostFiftyPages ==
    /\ Count("extractBidsFromCurrentPage") <= PageLimit
    /\ Count("click:next") <= PageLimit
    /\ currentPage <= PageLimit + 1
    /\ currentPage = PageLimit + 1 => pc \notin {"sb_findNext", "sb_next"}

\* A cyclic listing that offered a next link every time: 50 extractions and
\* 50 clicks, then the return.
C13_Witness ==
    /\ Has("scrapeBids:return")
    /\ Count("extractBidsFromCurrentPage") = PageLimit
    /\ Count("click:next") = PageLimit

\* C14: a candidate next-page control is followed if and only if it is
\* visible and has an href that is not the pure in-page anchor '#'; a
\* fragment on a real URL does not prevent following it.
C14_NextFollowedIffVisibleRealHref ==
    pc = "sb_next" =>
      \A i \in 1..Len(nextSeen) :
        nextSeen[i] # NullControl =>
          ((nextButton = nextSeen[i])
             <=> (nextSeen[i].visible /\ nextSeen[i].href \notin {"", "#"}))

\* C15: when the idle-network wait after the click on a next-page control
\* times out, the loop is not ended by it.
C15_NextWaitTimeoutKeepsLoop ==
    (pc = "sb_while" /\ loadWait = "timeout") => hasMorePages

\* The records of the first k iterations over listing s, in page order and
\* row order.
RECURSIVE RecordsOfPages(_, _)
RecordsOfPages(s, k) ==
    IF k = 0 THEN <<>>
    ELSE RecordsOfPages(s, k - 1) \o PageRecords(k, s[PageIndex(s, k)])

\* C16: once the pagination loop has started, the accumulated list is at
\* every moment the records of the pages extracted so far, in page order
\* and row order; scrapeBids() does not raise any more and returns that
\* list, whatever happened on the way to a later page.
C16_AccumulatedPagesReturned ==
    /\ currentPage >= 1 =>
         /\ bids = RecordsOfPages(site, Count("extractBidsFromCurrentPage"))
         /\ pc # "sb_catch" /\ ~Has("scrapeBids:throw")
    /\ Has("scrapeBids:return") => scrapedBids = bids

\* Three pages of two records were extracted, the wait for the fourth page
\* timed out, and the six records were returned.
C16_Witness ==
    /\ Has("scrapeBids:return")
    /\ loadWait = "timeout"
    /\ currentPage = 3
    /\ Len(scrapedBids) = 6

C17_RowFaultLosesOnlyThatRow ==
    pc = "xp_returned" =>
      \A j \in 1..Len(rowElements) :
        /\ rowElements[j].kind = "faulty"
             => ~\E k \in 1..Len(pageBids) : pageBids[k].row = j
        /\ rowElements[j] = [kind |-> "bid", due |-> NoDate]
             => \E k \in 1..Len(pageBids) : pageBids[k].row = j

\* The first row raised and the second row is in the returned list.
C17_Witness ==
    /\ pc = "xp_returned"
    /\ Len(rowElements) = 2
    /\ rowElements[1].kind = "faulty"
    /\ Len(pageBids) = 1 /\ pageBids[1].row = 2

\* C19: no record of the list has a due date strictly earlier than the
\* time at which its row was extracted, whatever rows came before it.
C19_NoExpiredRecord ==
    \A k \in 1..Len(pageBids) :
      pageBids[k].dueDate = NoDate \/ pageBids[k].dueDate >= pageBids[k].at

\* A row due at instant 0 is met at instant 1 and dropped; the row after
\* it, due at the very instant of its extraction, is kept.
C19_Witness ==
    /\ pc = "xp_returned"
    /\ Len(rowElements) = 2
    /\ rowElements[1] = [kind |-> "bid", due |-> 0]
    /\ Len(pageBids) = 1
    /\ pageBids[1] = [row |-> 2, dueDate |-> 1, at |-> 1]

CurrentRow == rowElements[rowIndex]

\* 'no structural title selector yields text longer than the minimum
\* threshold'
NoStructuralTitle(row) ==
    \A i \in 1..Len(row.title) : Len(row.title[i]) <= TitleMinLength

\* 'the first ten whitespace-split tokens of the row's full text (all of
\* them when there are fewer than ten)'
FirstTenTokens(text) ==
    LET tokens(words) ==
            Join([i \in 1..(IF Len(words) < 10 THEN Len(words) ELSE 10) |->
                     words[i]])
    IN  tokens(Words(text))

\* C21 as stated: for every row with non-empty trimmed text in which no
\* structural title selector yields a text longer than the threshold, the
\* title that goes to the relevance gate is the first ten tokens of the row's
\* text, all of them when there are fewer than ten.
C21_FallbackTitleIsFirstTenTokens ==
    (pc = "xd_gate" /\ NoStructuralTitle(CurrentRow))
        => bid.title = FirstTenTokens(CurrentRow.text)

\* C21 amended: for such a row the title that goes to the relevance gate is
\* the first ten tokens of the row's text (all of them when there are fewer
\* than ten) if the text has at least three tokens, and is empty if it has
\* one or two; the gate rejects the row with the empty title.
C21_FallbackTitleFromThreeTokens ==
    /\ (pc = "xd_gate" /\ NoStructuralTitle(CurrentRow))
          => bid.title = (IF Len(Words(CurrentRow.text)) >= 3
                          THEN FirstTenTokens(CurrentRow.text) ELSE "")
    /\ (pc = "xd_dates" /\ NoStructuralTitle(CurrentRow))
          => /\ Len(Words(CurrentRow.text)) >= 3
             /\ bid.title = FirstTenTokens(CurrentRow.text)

\* A row of more than ten tokens has gone to the gate with its first ten,
\* and a row of two tokens with no title.
C21_Witness ==
    /\ pc = "xd_gate" /\ rowIndex = 2
    /\ NoStructuralTitle(CurrentRow) /\ NoStructuralTitle(rowElements[1])
    /\ Len(Words(CurrentRow.text)) = 2 /\ bid.title = ""
    /\ Len(Words(rowElements[1].text)) > 10
    /\ Len(pageBids) = 1
    /\ pageBids[1].title = FirstTenTokens(rowElements[1].text)
    /\ pageBids[1].title # Join(Words(rowElements[1].text))

\* The dates parseDate() gave for the date strings of a text.
DatesOfText(text) ==
    LET range(dates) == { dates[i] : i \in 1..Len(dates) } IN range(ParsedDates(text))

\* C22: for every emitted record, postedDate is the earliest of the dates
\* parsed from the row text, dueDate is the latest of them when more than one
\* was parsed and is absent when exactly one was parsed, and postedDate <=
\* dueDate whenever both are set.
C22_PostedEarliestDueLatest ==
    (pc = "xd_return" /\ bid # NullBid) =>
        LET holds(dates, n) ==
                /\ n = 0 => bid.postedDate = NoDate /\ bid.dueDate = NoDate
                /\ n > 0 => /\ bid.postedDate \in dates
                            /\ \A d \in dates : bid.postedDate <= d
                /\ n = 1 => bid.dueDate = NoDate
                /\ n > 1 => /\ bid.dueDate \in dates
                            /\ \A d \in dates : d <= bid.dueDate
                /\ (bid.postedDate # NoDate /\ bid.dueDate # NoDate)
                      => bid.postedDate <= bid.dueDate
        IN  holds(DatesOfText(CurrentRow.text), Len(ParsedDates(CurrentRow.text)))

\* A record of a row with two dates, the later one its due date, follows a
\* record of a row with one date and no due date.
C22_Witness ==
    /\ pc = "xd_return" /\ bid # NullBid /\ rowIndex = 2
    /\ Len(ParsedDates(CurrentRow.text)) = 2
    /\ bid.postedDate = DayNumber(2024, 1, 15)
    /\ bid.dueDate = DayNumber(2024, 2, 15)
    /\ Len(pageBids) = 1
    /\ pageBids[1].postedDate = DayNumber(2027, 4, 1)
    /\ pageBids[1].dueDate = NoDate

\* 'the first capture group of the first pattern, in list order, that
\* matches the row text', "" when no pattern matches.
FirstCaptureGroup(text, patterns) ==
    LET group(m) == IF m = << >> THEN "" ELSE m[1].group
    IN  group(FirstMatching(text, patterns))

\* C23 as stated: externalId of a record is the first capture group of the
\* first pattern of the identifier chain that matches the row text, quantity
\* likewise for the quantity chain, and each is empty only when no pattern of
\* its chain matches.
C23_FirstCaptureGroupTaken ==
    (pc = "xd_return" /\ bid # NullBid) =>
        /\ bid.externalId = FirstCaptureGroup(CurrentRow.text, idPatterns)
        /\ bid.quantity = FirstCaptureGroup(CurrentRow.text, qtyPatterns)

\* The row of the end-to-end scenario.
ScenarioText == "RFP-2024-001 IT Services $75,000 due 02/15/2024 posted 01/15/2024"

\* C24 as stated: the extraction of the row 'RFP-2024-001 IT Services $75,000
\* due 02/15/2024 posted 01/15/2024' yields a record with amount '$75,000',
\* postedDate Jan 15 2024, dueDate Feb 15 2024 and an externalId containing
\* '2024-001'.
C24_ScenarioRowRecord ==
    (pc = "xd_return" /\ CurrentRow.text = ScenarioText) =>
        /\ bid # NullBid
        /\ bid.amount = "$75,000"
        /\ bid.postedDate = DayNumber(2024, 1, 15)
        /\ bid.dueDate = DayNumber(2024, 2, 15)
        /\ Includes(bid.externalId, "2024-001")

\* C26 as stated: parseDate() returns a date only if its year lies in
\* 1901..2099: every date it gave for a date string of the row, the record's
\* postedDate and dueDate among them, has its year in that range.
C26_ParsedYearInRange ==
    (pc = "xd_expiry") =>
        \A d \in DatesOfText(CurrentRow.text) :
            FullYear(d) >= 1901 /\ FullYear(d) <= 2099

\* The record being returned, if any, and the records returned before it.
Emitted ==
    { pageBids[i] : i \in 1..Len(pageBids) }
    \cup (IF pc = "xd_return" /\ bid # NullBid THEN {bid} ELSE {})

\* C27: titleHash of an emitted record is a function of its title alone: two
\* extractions with the same title get the same titleHash, whatever their
\* link, description and dates.
C27_SameTitleSameHash ==
    \A a \in Emitted, b \in Emitted : a.title = b.title => a.titleHash = b.titleHash

\* Two records with the same title and different links, descriptions and
\* dates.
C27_Witness ==
    \E a \in Emitted, b \in Emitted :
        /\ a.title = b.title /\ a.titleHash = b.titleHash /\ a.titleHash # ""
        /\ a.link # b.link /\ a.description # b.description
        /\ a.dueDate # b.dueDate /\ a.postedDate # b.postedDate

\* C30: after cleanup() has returned, every browser that initialize()
\* launched is closed, also when closing the page raised (this.page is then
\* still set).
C30_BrowserClosedAfterCleanup ==
    (Has("cleanup") /\ pageRef) => ~browserOpen

\* C29: when the extraction of a whole page failed with an exception, the
\* pagination loop ends at that page: no next-page control is looked up or
\* clicked after it, the loop body is not entered again, and scrapeBids()
\* returns the records accumulated so far.
C29_PageFailureEndsLoop ==
    pageError # "" =>
      /\ nextSeen = Unseen /\ nextButton = NullControl
      /\ pc \notin {"sb_next", "sb_catch"}
      /\ pc = "sb_while" => ~LoopContinues(hasMorePages, currentPage)
      /\ Has("scrapeBids:return") => scrapedBids = bids

\* The listing is one of the scenario: two pages of three bid-related rows, one
\* row of each page past its due date, a next link on the first page and
\* no next control on the second.
ScenarioListing ==
    /\ Len(site) = 2
    /\ \A p \in 1..2 : \E r \in 1..3 : site[p].rows = ListingRows(p, {r})
    /\ WalkNext(site[1].next, 1) # NullControl
    /\ site[2].next = NextBar(NullControl)

C28_OneRecordPerKey ==
    /\ [](\A i \in 1..Len(store), j \in 1..Len(store) :
            (/\ store[i].data.portal = store[j].data.portal
             /\ store[i].data.titleHash = store[j].data.titleHash) => i = j)
    /\ [][\A i \in 1..Len(store) :
            /\ store'[i].data.portal = store[i].data.portal
            /\ store'[i].data.titleHash = store[i].data.titleHash]_vars

\* C31: testConnection() never raises (testSeptaCredentials always answers
\* with the test's result); it returns true exactly when initialize() and
\* login() both succeeded and false for every failure, a browser that could
\* not be launched included; and cleanup() has run before it returns.
C31_TestConnectionNeverRaises ==
    (entry = "test" /\ pc \in {"test_respond", "done"} /\ Has("initialize"))
    => /\ Has("cleanup")
       /\ response.testPassed <=> (Has("login") /\ loginResult = "true")
       /\ ~Has("initialize:return") /\ ~Has("login") => ~response.testPassed
       /\ pc = "done" => response.status = 200

\* The browser could not be launched: the test answered false after
\* cleanup().
C31_Witness ==
    /\ entry = "test" /\ pc = "done"
    /\ Has("initialize") /\ ~Has("login") /\ ~browserRef
    /\ Has("cleanup")
    /\ response.status = 200 /\ ~response.testPassed

\* C33: an element the engine goes on to click after walking an ordered
\* selector chain with a visibility test was visible when it was selected:
\* login() reaches the click on the submit control only with a visible
\* control (with no visible match it has failed with 'Submit button not
\* found' before).
C33_ClickedElementWasVisible ==
    pc = "click" => submitButton.visible

\* C34: when scrapeBids() returns, the number of next-page clicks that
\* succeeded is the number of pages extracted minus one, the run that the
\* 50-page cap ends included.
C34_ClicksArePagesMinusOne ==
    Has("scrapeBids:return")
    => /\ Count("waitForTimeout") = Count("extractBidsFromCurrentPage") - 1
       /\ currentPage = Count("extractBidsFromCurrentPage")

\* C39: parseDate() gives 15 February 2024 for a month-name date whatever
\* the letter case of the month abbreviation, as it does for 02/15/2024 and
\* 2024-02-15: every such date string of a row whose dates have been parsed
\* was parsed to that day.
C39_MonthNameCaseInsensitive ==
    pc = "xd_expiry" =>
      \A d \in DateStrings :
        Includes(CurrentRow.text, d) => ParseDate(d) = DayNumber(2024, 2, 15)

\* C36: in the mock store every saved bid has an _id different from that of
\* every other stored bid, saves within one millisecond included (so that
\* an update by id reaches the record that was looked up).
C36_DistinctIds ==
    \A i \in 1..Len(store), j \in 1..Len(store) :
      store[i].id = store[j].id => i = j

\* C35: the list one run of scrapeBids() returns never holds two records
\* with the same (portal, titleHash), also when the next-page control led
\* back to a page already visited.
C35_NoDuplicateInReturnedList ==
    \A i \in 1..Len(scrapedBids), j \in 1..Len(scrapedBids) :
      (/\ scrapedBids[i].portal = scrapedBids[j].portal
       /\ scrapedBids[i].titleHash = scrapedBids[j].titleHash) => i = j

\* C32: connectDB(retries) makes at most `retries` attempts; it returns
\* true as soon as one attempt succeeds and false, without raising, after
\* the last one failed; it waits min(1000 * 2^(attempt-1), 10000) ms
\* between two attempts only, never after the last failed one; and the
\* server goes on to listen whatever the result.
C32_ConnectRetriesAndBackoff ==
    pc \in {"cd_for", "cd_wait", "ss_import", "ss_schedule", "ss_listen", "ss_up"}
    => /\ Len(db.outcomes) <= db.retries
       /\ \A i \in 1..(Len(db.outcomes) - 1) : ~db.outcomes[i]
       /\ db.result = "true"
            <=> (Len(db.outcomes) > 0 /\ db.outcomes[Len(db.outcomes)])
       /\ db.result = "false"
            <=> (/\ Len(db.outcomes) = db.retries
                 /\ \A i \in 1..Len(db.outcomes) : ~db.outcomes[i]
                 /\ pc \notin {"cd_for", "cd_wait"})
       /\ \A i \in 1..Len(db.waited) :
            db.waited[i] = IF i <= 4 THEN 1000 * 2 ^ (i - 1) ELSE 10000
       /\ Len(db.waited) = IF Len(db.outcomes) = 0 THEN 0
                           ELSE IF pc = "cd_for" THEN Len(db.outcomes)
                           ELSE Len(db.outcomes) - 1
       /\ pc = "ss_up" => (db.listening /\ db.scheduled /\ proc = "running")

\* Six attempts failed: five waits, the last one capped, none after the
\* sixth failure, and the server listens without a database.
C32_Witness ==
    /\ pc = "ss_up" /\ db.result = "false" /\ db.retries = 6
    /\ db.waited = << 1000, 2000, 4000, 8000, 10000 >>
    /\ db.listening

\* C38: lastTestOk = true on the stored SEPTA credential implies that a
\* connection test with exactly the stored username and password has
\* succeeded; new credentials saved while a test of the old ones is in
\* flight are never left marked as tested.
C38_TestedOkMeansThesePassed ==
    cred.lastTestOk => cred.login \in test.passed

\* C37: when the upsert loops of two fetch runs overlap and both runs
\* scraped the same bid, the store ends with exactly one record for its
\* (portal, titleHash), and the two runs together count it as inserted
\* once.
C37_OverlapOneRecordOneInsert ==
    (\A r \in 1..Len(runs) : runs[r].phase = "done")
    => /\ \A a \in 1..Len(runs[1].bids), b \in 1..Len(runs[2].bids) :
            runs[1].bids[a].titleHash = runs[2].bids[b].titleHash
            => Cardinality({ i \in 1..Len(store) :
                               /\ store[i].data.portal = runs[1].bids[a].portal
                               /\ store[i].data.titleHash
                                    = runs[1].bids[a].titleHash }) <= 1
       /\ runs[1].inserted + runs[2].inserted
            <= Cardinality(UNION { { runs[r].bids[i].titleHash :
                                       i \in 1..Len(runs[r].bids) } :
                                   r \in 1..Len(runs) })

====
